---- MODULE Spec2Model ----
(***************************************************************************)
(* The streaming session controller of the terminal chat client             *)
(* (hooks/useStreamingResponder.ts), the transcript store it writes to      *)
(* (hooks/useChatStore.ts) and the lifecycle operations around it           *)
(* (cancelStreaming, unmount).                                              *)
(*                                                                         *)
(* JavaScript runs one task at a time: the code between two awaits is one   *)
(* atomic step.  Every action below is one such step of one invocation of   *)
(* the responder (from the resolution of the promise it awaits to the next  *)
(* await or to its return), or one call made by the user interface.         *)
(***************************************************************************)
EXTENDS Integers, Sequences, FiniteSets, TLC

\* Bounds of the model.
MaxRuns == 2      \* invocations of the streaming responder
MaxEvents == 3    \* events the backend yields in all, over every stream of every run
MaxRounds == 1    \* continuation streams (agentic rounds) of one run
MaxCancels == 1   \* calls of cancelStreaming
MaxEntries == 3   \* transcript entries, where the store is called directly
MaxText == 2      \* characters of a message, where the store is called directly
MaxUiLines == 2   \* lines the user interface appends beside a run
MaxPersisted == 1 \* prompts in the persisted history when it is loaded
MaxRecords == 2   \* calls of record
MaxTime == 800    \* the last reading of the clock, in ms

VARIABLES
    streamRunId,         \* streamRunId.current
    mounted,             \* mountedRef.current
    abortRef,            \* abortRef.current: 0 is null, r the controller run r created
    aborted,             \* the controllers whose signal.aborted is true
    streamState,         \* useChatStore: streamState
    entries,             \* useChatStore: entries (the transcript)
    nextLineId,          \* useLineIdGenerator: nextLineId.current
    responderWordCount,  \* useChatStore: responderWordCount
    runs,                \* the locals of each invocation of the responder
    nextCallId,          \* the backend's generator of tool call ids
    cancels,             \* number of cancelStreaming calls so far
    delivered,           \* number of events the backend has yielded so far
    origin,              \* history: for each transcript entry, the run and round that appended it
    service,             \* usePromptHistory: options.persistentHistory is given
    persisted,           \* the persistent service's history, newest first
    pendingWrites,       \* prompts passed to persistent.record and not yet in its history
    historyLoaded,       \* usePromptHistory: the effect that loads the history has run
    loadedEntries,       \* history: what getHistory() returned when the history was loaded
    sessionEntries,      \* usePromptHistory: sessionEntries.current
    combinedEntries,     \* usePromptHistory: combinedEntries.current
    index,               \* usePromptHistory: index.current
    lastKey,             \* usePromptHistory: lastKey.current
    now,                 \* Date.now()
    textareaRef,         \* textareaRef.current is a handle (TRUE) or null (FALSE)
    buffer,              \* the text of the textarea (plainText), a sequence of characters
    cursorOffset,        \* the cursorOffset of the textarea
    promptCount,         \* useChatStore: promptCount
    autoFollow,          \* useScrollManagement: autoFollow
    suggestions,         \* useMentionSuggestions: suggestions
    selectedIndex,       \* useMentionSuggestions: selectedIndex
    inputLineCount,      \* useInputManager: inputLineCount
    modal,               \* useModalManager: modal.type
    exited,              \* process.exit has been called
    approvalSession,     \* useToolApproval: a session is given (TRUE) or null (FALSE)
    pendingApproval,     \* useToolApproval: the pendingApproval state
    renderedApproval,    \* useToolApproval: pendingApproval as the callbacks of the last render see it
    approvalQueueRef,    \* useToolApproval: approvalQueueRef.current
    published,           \* the payloads published on the message bus
    queued,              \* history: the approvals passed to queueApproval, in order
    shown,               \* history: the approvals rendered as pendingApproval, in order
    sessionConfig        \* the session config (SessionConfig)

chatVars == <<streamRunId, mounted, abortRef, aborted, streamState, entries,
              nextLineId, responderWordCount, runs, nextCallId, cancels, delivered,
              origin>>

historyVars == <<service, persisted, pendingWrites, historyLoaded, loadedEntries,
                 sessionEntries, combinedEntries, index, lastKey, now>>

editorVars == <<textareaRef, buffer, cursorOffset>>

inputVars == <<promptCount, autoFollow, suggestions, selectedIndex, inputLineCount,
               modal, exited>>

approvalVars == <<approvalSession, pendingApproval, renderedApproval, approvalQueueRef,
                  published, queued, shown>>

panelVars == <<approvalVars, sessionConfig>>

\* What the chat store and the streaming responder leave alone.
uiVars == <<historyVars, editorVars, inputVars, panelVars>>

vars == <<chatVars, uiVars>>

RunIds == 1..MaxRuns

(***************************************************************************)
(* Text.  A text is a sequence of characters; " " is the whitespace         *)
(* character.                                                               *)
(***************************************************************************)
Texts == {<<"a">>, <<" ">>}

\* text.trim() === ""
IsBlank(text) == \A i \in DOMAIN text : text[i] = " "

\* countWords: the number of maximal runs of non-whitespace characters
countWords(text) ==
    Cardinality({i \in DOMAIN text : text[i] # " " /\ (i = 1 \/ text[i - 1] = " ")})

(***************************************************************************)
(* Transcript entries.  id n stands for the string `line-n`.  The name and  *)
(* params of a ToolCall are payload no code of the controller reads; they   *)
(* are left out.                                                            *)
(***************************************************************************)
ChatMessage(id, role, text) ==
    [id |-> id, kind |-> "message", role |-> role, text |-> text, callId |-> 0,
     status |-> "none", output |-> "none", errorMessage |-> "none", confirmation |-> "none"]

ToolCall(id, callId) ==
    [id |-> id, kind |-> "toolcall", role |-> "none", text |-> <<>>, callId |-> callId,
     status |-> "pending", output |-> "none", errorMessage |-> "none", confirmation |-> "none"]

\* The legacy tool block: lines, isBatch, scrollable, maxHeight and streaming
\* are payload; the lines are kept as the text.
ToolBlockLegacy(id, lines) ==
    [id |-> id, kind |-> "tool", role |-> "none", text |-> lines, callId |-> 0,
     status |-> "none", output |-> "none", errorMessage |-> "none", confirmation |-> "none"]

\* { ...item, ...update }
Merge(item, update) ==
    [f \in DOMAIN item |-> IF f \in DOMAIN update THEN update[f] ELSE item[f]]

(***************************************************************************)
(* Backend events, as handleAdapterEvent receives them.                     *)
(***************************************************************************)
Event(type, text, id, success) == [type |-> type, text |-> text, id |-> id, success |-> success]

NoEvent == Event("none", <<>>, 0, FALSE)

(***************************************************************************)
(* The locals of one invocation of the responder.                           *)
(*   pc: fresh (not invoked yet), rejected (returned at validation),        *)
(*       initial (awaiting the next event of the initial stream),           *)
(*       breaking (left a for-await loop by break: awaiting the iterator's  *)
(*       return), tool (awaiting executeToolCall), continuation (awaiting   *)
(*       the next event of a continuation stream), import (awaiting the     *)
(*       dynamic import of transformEvent, holding an event), done.         *)
(*   heard: history, the events the invocation has passed to                *)
(*       handleAdapterEvent, each with the round it arrived in.             *)
(*   asked: the tool call ids the invocation has passed to                  *)
(*       onConfirmationNeeded, one element per call.                        *)
(***************************************************************************)
FreshRun ==
    [pc |-> "fresh", currentRun |-> 0,
     modelMessageId |-> 0, thinkingMessageId |-> 0, pendingToolRequests |-> <<>>,
     round |-> 0, toolIdx |-> 0, responseParts |-> <<>>,
     request |-> <<>>, event |-> NoEvent, execFailed |-> FALSE, exit |-> "none",
     heard |-> <<>>, asked |-> <<>>]

(***************************************************************************)
(* The part of the state one step of run `self` reads and writes, as a     *)
(* record the operators below transform; Commit writes it back.             *)
(***************************************************************************)
Store(self) ==
    [self |-> self, run |-> runs[self], entries |-> entries, origin |-> origin,
     nextLineId |-> nextLineId, responderWordCount |-> responderWordCount,
     streamState |-> streamState, abortRef |-> abortRef]

Commit(s) ==
    /\ runs' = [runs EXCEPT ![s.self] = s.run]
    /\ entries' = s.entries
    /\ origin' = s.origin
    /\ nextLineId' = s.nextLineId
    /\ responderWordCount' = s.responderWordCount
    /\ streamState' = s.streamState
    /\ abortRef' = s.abortRef

Tag(s) == [run |-> s.self, round |-> s.run.round]

(***************************************************************************)
(* useChatStore: the transcript store.                                      *)
(***************************************************************************)
\* Mutant: the generator returns its counter without advancing it.
makeIdStale(s) == s.nextLineId

\* makeId(): nextLineId.current += 1; return `line-${nextLineId.current}`
makeId(s) == s.nextLineId + 1

appendMessage(s, role, text) ==
    [s EXCEPT !.nextLineId = makeId(s),
              !.entries = Append(@, ChatMessage(makeId(s), role, text)),
              !.origin = Append(@, Tag(s))]

appendToMessage(s, id, text) ==
    [s EXCEPT !.entries =
        [i \in DOMAIN @ |->
            IF @[i].kind # "message" \/ @[i].id # id
            THEN @[i]
            ELSE [@[i] EXCEPT !.text = @ \o text]]]

appendToolBlock(s, lines) ==
    [s EXCEPT !.nextLineId = makeId(s),
              !.entries = Append(@, ToolBlockLegacy(makeId(s), lines)),
              !.origin = Append(@, Tag(s))]

\* appendLines(role, textLines): one entry per line, each with its own id.
appendLines(s, role, textLines) ==
    LET F[n \in 0..Len(textLines)] ==
            IF n = 0 THEN s ELSE appendMessage(F[n - 1], role, textLines[n])
    IN  F[Len(textLines)]

appendToolCall(s, callId) ==
    [s EXCEPT !.nextLineId = makeId(s),
              !.entries = Append(@, ToolCall(makeId(s), callId)),
              !.origin = Append(@, Tag(s))]

\* Mutant: the update is applied to every ToolCall entry, whatever its callId.
updateToolCallAny(s, callId, update) ==
    [s EXCEPT !.entries =
        [i \in DOMAIN @ |->
            IF @[i].kind # "toolcall" THEN @[i] ELSE Merge(@[i], update)]]

\* Mutant: the updated ToolCall entries are taken out and put back at the
\* end of the transcript.
updateToolCallMoveLast(s, callId, update) ==
    LET Hit(e) == e.kind = "toolcall" /\ e.callId = callId
        Miss(e) == ~Hit(e)
        hits == SelectSeq(s.entries, Hit)
    IN  [s EXCEPT !.entries =
            SelectSeq(s.entries, Miss) \o [i \in DOMAIN hits |-> Merge(hits[i], update)]]

updateToolCall(s, callId, update) ==
    [s EXCEPT !.entries =
        [i \in DOMAIN @ |->
            IF @[i].kind # "toolcall" \/ @[i].callId # callId
            THEN @[i]
            ELSE Merge(@[i], update)]]

\* setResponderWordCount((count) => count + countWords(text))
addWords(s, text) ==
    [s EXCEPT !.responderWordCount = @ + countWords(text)]

(***************************************************************************)
(* handleAdapterEvent: one backend event applied to the transcript and to   *)
(* the stream context (modelMessageId, thinkingMessageId,                   *)
(* pendingToolRequests) of the run.  context.toolCalls is written and       *)
(* never read; it is left out.                                              *)
(***************************************************************************)
\* Mutant: a whitespace-only first delta opens a message like any other.
handleTextDeltaNoSkip(s, text) ==
    IF s.run.modelMessageId = 0
    THEN LET t == addWords(appendMessage(s, "model", text), text)
         IN  [t EXCEPT !.run.modelMessageId = t.nextLineId]
    ELSE addWords(appendToMessage(s, s.run.modelMessageId, text), text)

handleTextDelta(s, text) ==
    IF s.run.modelMessageId = 0
    THEN IF IsBlank(text)
         THEN s
         ELSE LET t == addWords(appendMessage(s, "model", text), text)
              IN  [t EXCEPT !.run.modelMessageId = t.nextLineId]
    ELSE addWords(appendToMessage(s, s.run.modelMessageId, text), text)

handleThinkingDelta(s, text) ==
    IF s.run.thinkingMessageId = 0
    THEN IF IsBlank(text)
         THEN s
         ELSE LET t == addWords(appendMessage(s, "thinking", text), text)
              IN  [t EXCEPT !.run.thinkingMessageId = t.nextLineId]
    ELSE addWords(appendToMessage(s, s.run.thinkingMessageId, text), text)

\* Mutant: tool_pending leaves the open message ids as they are.
handleToolPendingKeepOpen(s, id) ==
    [appendToolCall(s, id) EXCEPT !.run.pendingToolRequests = Append(@, id)]

handleToolPending(s, id) ==
    [appendToolCall(s, id) EXCEPT
        !.run.modelMessageId = 0,
        !.run.thinkingMessageId = 0,
        !.run.pendingToolRequests = Append(@, id)]

handleToolResult(s, id, success) ==
    updateToolCall(s, id,
        [status |-> IF success THEN "complete" ELSE "error",
         output |-> IF success THEN "out" ELSE "none",
         errorMessage |-> IF success THEN "none" ELSE "err"])

\* onConfirmationNeeded is the callback the responder was given.
handleToolConfirmation(s, id) ==
    [updateToolCall(s, id, [status |-> "confirming", confirmation |-> "asked"])
        EXCEPT !.run.asked = Append(@, id)]

handleToolCancelled(s, id) ==
    updateToolCall(s, id, [status |-> "cancelled"])

\* Mutant: an error event also closes the open messages.
handleErrorEventClosing(s) ==
    [appendMessage(s, "system", <<"E">>) EXCEPT
        !.run.modelMessageId = 0, !.run.thinkingMessageId = 0]

handleErrorEvent(s) ==
    appendMessage(s, "system", <<"E">>)

\* History: the event is about to be passed to handleAdapterEvent.
Hear(s, event) ==
    [s EXCEPT !.run.heard = Append(@, [event |-> event, round |-> s.run.round])]

\* Mutant: an event of an unhandled type is reported in the transcript and
\* closes the open messages.
handleAdapterEventStrict(s, event) ==
    CASE event.type = "text_delta" -> handleTextDelta(s, event.text)
      [] event.type = "thinking_delta" -> handleThinkingDelta(s, event.text)
      [] event.type = "tool_pending" -> handleToolPending(s, event.id)
      [] event.type = "tool_result" -> handleToolResult(s, event.id, event.success)
      [] event.type = "tool_confirmation" -> handleToolConfirmation(s, event.id)
      [] event.type = "tool_cancelled" -> handleToolCancelled(s, event.id)
      [] event.type = "error" -> handleErrorEvent(s)
      [] OTHER -> [appendMessage(s, "system", <<"U">>) EXCEPT
                        !.run.modelMessageId = 0, !.run.thinkingMessageId = 0]

handleAdapterEvent(s, event) ==
    CASE event.type = "text_delta" -> handleTextDelta(s, event.text)
      [] event.type = "thinking_delta" -> handleThinkingDelta(s, event.text)
      [] event.type = "tool_pending" -> handleToolPending(s, event.id)
      [] event.type = "tool_result" -> handleToolResult(s, event.id, event.success)
      [] event.type = "tool_confirmation" -> handleToolConfirmation(s, event.id)
      [] event.type = "tool_cancelled" -> handleToolCancelled(s, event.id)
      [] event.type = "error" -> handleErrorEvent(s)
      [] OTHER -> s

(***************************************************************************)
(* executeToolsAndGetResponses and the agentic loop of the responder.       *)
(***************************************************************************)
Aborted(self) == self \in aborted

Current(run) == streamRunId = run.currentRun

\* The locals of an invocation that has returned; what is kept is history.
Returned(run, exit) ==
    [FreshRun EXCEPT !.pc = "done", !.currentRun = run.currentRun, !.round = run.round,
                     !.request = run.request, !.execFailed = run.execFailed, !.exit = exit,
                     !.heard = run.heard, !.asked = run.asked]

\* Mutant: the finally block without the run-id fence and the controller check.
finallyUnfenced(s, exit) ==
    [s EXCEPT !.streamState = "idle", !.abortRef = 0, !.run = Returned(s.run, exit)]

\* finally { ... }
finallyBlock(s, exit) ==
    LET a == IF mounted /\ Current(s.run) THEN [s EXCEPT !.streamState = "idle"] ELSE s
        b == IF a.abortRef = s.self THEN [a EXCEPT !.abortRef = 0] ELSE a
    IN  [b EXCEPT !.run = Returned(s.run, exit)]

\* Mutant: the cleanup sits at the end of the try block instead of in a
\* finally block, so an exception skips it.
catchWithoutFinally(s) ==
    [(IF ~Aborted(s.self) THEN appendMessage(s, "system", <<"X">>) ELSE s)
        EXCEPT !.run = Returned(s.run, "threw")]

\* Mutant: the catch block reports nothing.
catchSilent(s) == finallyBlock(s, "threw")

\* Mutant: the catch block reports every exception, without looking at the
\* abort signal.
catchAlways(s) == finallyBlock(appendMessage(s, "system", <<"X">>), "threw")

\* catch (error) { ... } finally { ... }
catchBlock(s) ==
    finallyBlock(
        IF ~Aborted(s.self) THEN appendMessage(s, "system", <<"X">>) ELSE s,
        "threw")

\* Mutant: the continuation request is sent without resetting the open
\* message ids of the context.
sendContinuationOpenMessages(s) ==
    [s EXCEPT !.run.pendingToolRequests = <<>>,
              !.run.round = @ + 1,
              !.run.request = s.run.responseParts,
              !.run.responseParts = <<>>,
              !.run.toolIdx = 0,
              !.run.pc = "continuation"]

\* Send tool responses back to the model and continue streaming: the context
\* is reset and client.sendMessageStream(responseParts, signal, promptId) is
\* called; the run then awaits the first event of that stream.
sendContinuation(s) ==
    [s EXCEPT !.run.modelMessageId = 0,
              !.run.thinkingMessageId = 0,
              !.run.pendingToolRequests = <<>>,
              !.run.round = @ + 1,
              !.run.request = s.run.responseParts,
              !.run.responseParts = <<>>,
              !.run.toolIdx = 0,
              !.run.pc = "continuation"]

\* Mutant: the queued tools are started together (all marked executing)
\* instead of one after the other.
toolLoopParallel(s, k) ==
    IF k > Len(s.run.pendingToolRequests) \/ Aborted(s.self)
    THEN sendContinuation(s)
    ELSE [s EXCEPT
            !.entries =
                [i \in DOMAIN @ |->
                    IF /\ @[i].kind = "toolcall"
                       /\ \E j \in k..Len(s.run.pendingToolRequests) :
                            s.run.pendingToolRequests[j] = @[i].callId
                    THEN Merge(@[i], [status |-> "executing"])
                    ELSE @[i]],
            !.run.toolIdx = k,
            !.run.pc = "tool"]

\* The body of `for (const tool of pendingTools)` from tool k on, up to the
\* await of executeToolCall, or up to the return when the loop has ended.
toolLoop(s, k) ==
    IF k > Len(s.run.pendingToolRequests) \/ Aborted(s.self)
    THEN sendContinuation(s)
    ELSE [updateToolCall(s, s.run.pendingToolRequests[k], [status |-> "executing"])
            EXCEPT !.run.toolIdx = k, !.run.pc = "tool"]

\* Mutant: no try/catch around executeToolCall, so a throwing tool ends the
\* loop and the exception reaches the catch block of the responder.
toolResolvedUncaught(s, outcome) ==
    LET k == s.run.toolIdx
        id == s.run.pendingToolRequests[k]
        u == IF outcome = "ok"
             THEN updateToolCall(s, id, [status |-> "complete", output |-> "out"])
             ELSE updateToolCall(s, id,
                    [status |-> "error", errorMessage |-> "response.error",
                     output |-> "out"])
        v == [u EXCEPT !.run.responseParts = Append(@, id),
                       !.run.execFailed = @ \/ outcome # "ok"]
    IN  IF outcome = "throw"
        THEN catchBlock([updateToolCall(s, id,
                            [status |-> "error", errorMessage |-> "thrown"])
                            EXCEPT !.run.execFailed = TRUE])
        ELSE toolLoop(v, k + 1)

\* executeToolCall has resolved without error, resolved with response.error,
\* or thrown: the status update that follows, and the rest of the loop.
toolResolved(s, outcome) ==
    LET k == s.run.toolIdx
        id == s.run.pendingToolRequests[k]
        u == CASE outcome = "ok" ->
                    updateToolCall(s, id, [status |-> "complete", output |-> "out"])
               [] outcome = "error" ->
                    updateToolCall(s, id,
                        [status |-> "error", errorMessage |-> "response.error", output |-> "out"])
               [] OTHER ->
                    updateToolCall(s, id, [status |-> "error", errorMessage |-> "thrown"])
        v == [u EXCEPT !.run.responseParts =
                            IF outcome = "throw" THEN @ ELSE Append(@, id),
                       !.run.execFailed = @ \/ outcome # "ok"]
    IN  toolLoop(v, k + 1)

\* The condition of the agentic `while`, then its body up to the first await,
\* or the finally block when the condition is false.
whileLoop(s) ==
    IF /\ Len(s.run.pendingToolRequests) > 0
       /\ mounted
       /\ Current(s.run)
       /\ ~Aborted(s.self)
    THEN toolLoop(s, 1)
    ELSE finallyBlock(s,
            IF Len(s.run.pendingToolRequests) = 0 /\ mounted /\ Current(s.run)
               /\ ~Aborted(s.self)
            THEN "clean" ELSE "fenced")

(***************************************************************************)
(* The backend: what the event stream a run is reading may yield next.      *)
(* Tool call ids are the backend's and are never reused; events about a     *)
(* tool call follow its tool_pending event in the same stream.  A stream    *)
(* of the last round the bounds allow requests no tool.                     *)
(***************************************************************************)
Range(seq) == {seq[i] : i \in DOMAIN seq}

StreamEvents(run) ==
    {Event("text_delta", t, 0, FALSE) : t \in Texts}
    \cup {Event("thinking_delta", t, 0, FALSE) : t \in Texts}
    \cup (IF run.round < MaxRounds
          THEN {Event("tool_pending", <<>>, nextCallId + 1, FALSE)} ELSE {})
    \cup {Event("tool_result", <<>>, id, ok) :
            id \in Range(run.pendingToolRequests), ok \in BOOLEAN}
    \cup {Event(ty, <<>>, id, FALSE) :
            ty \in {"tool_confirmation", "tool_cancelled"},
            id \in Range(run.pendingToolRequests)}
    \cup {Event(ty, <<>>, 0, FALSE) : ty \in {"error", "complete", "unknown"}}

\* The events that write to the transcript or queue a tool.
CoreEvents(run) ==
    {e \in StreamEvents(run) :
        \/ e.type = "text_delta" /\ ~IsBlank(e.text)
        \/ e.type = "tool_pending"}

Issued(event) == IF event.type = "tool_pending" THEN event.id ELSE nextCallId

(***************************************************************************)
(* usePromptHistory.  The refs of the hook and the textarea it writes to    *)
(* are the record h; result is what the function called last returned.      *)
(* index counts from 0, as in the code; combinedEntries[index] is element   *)
(* index + 1 of the sequence, and undefined when index is the length.       *)
(***************************************************************************)
\* const MIN_INPUT_LINES = 1; const MAX_INPUT_LINES = 10
MIN_INPUT_LINES == 1

MAX_INPUT_LINES == 10

Prompts == {<<"a">>, <<"b">>}

Directions == {"up", "down"}

\* lastKey.current is null.
NoKey == [direction |-> "none", time |-> 0]

\* now - lastKey.current.time < 400
DoublePressWindow == 400

Max(a, b) == IF a >= b THEN a ELSE b

Min(a, b) == IF a <= b THEN a ELSE b

RECURSIVE Reverse(_)
Reverse(q) == IF q = <<>> THEN <<>> ELSE Append(Reverse(Tail(q)), Head(q))

History ==
    [sessionEntries |-> sessionEntries, combinedEntries |-> combinedEntries,
     index |-> index, lastKey |-> lastKey,
     textareaRef |-> textareaRef, buffer |-> buffer, cursorOffset |-> cursorOffset,
     result |-> FALSE]

\* Mutant: record reads the persisted history only when the hook loaded it.
combineLoaded(h, stored) ==
    IF service THEN Reverse(loadedEntries) \o h.sessionEntries ELSE h.sessionEntries

\* [...persistent.getHistory()].reverse() followed by the session entries;
\* stored is what getHistory() returns now.
combine(h, stored) ==
    IF service THEN Reverse(stored) \o h.sessionEntries ELSE h.sessionEntries

\* Mutant: record leaves the cursor where it was.
recordKeepIndex(h, prompt, stored) ==
    LET pushed == [h EXCEPT !.sessionEntries = Append(@, prompt)]
    IN  [pushed EXCEPT !.combinedEntries = combine(pushed, stored)]

\* record(prompt), up to the call of persistent.record
record(h, prompt, stored) ==
    LET pushed == [h EXCEPT !.sessionEntries = Append(@, prompt)]
        combined == combine(pushed, stored)
    IN  [pushed EXCEPT !.combinedEntries = combined, !.index = Len(combined)]

\* Mutant: applyEntry without the test of the textarea handle.
applyEntryUnguarded(h, direction) ==
    IF Len(h.combinedEntries) = 0
    THEN [h EXCEPT !.result = FALSE]
    ELSE LET i == IF direction = "up"
                  THEN Max(0, h.index - 1)
                  ELSE Min(Len(h.combinedEntries), h.index + 1)
             value == IF i < Len(h.combinedEntries) THEN h.combinedEntries[i + 1] ELSE <<>>
         IN  [h EXCEPT !.index = i, !.buffer = value, !.cursorOffset = Len(value),
                       !.result = TRUE]

\* Mutant: applyEntry that wraps around at the oldest entry.
applyEntryWrapping(h, direction) ==
    IF Len(h.combinedEntries) = 0 \/ ~h.textareaRef
    THEN [h EXCEPT !.result = FALSE]
    ELSE LET i == IF direction = "up"
                  THEN (IF h.index = 0 THEN Len(h.combinedEntries) ELSE h.index - 1)
                  ELSE Min(Len(h.combinedEntries), h.index + 1)
             value == IF i < Len(h.combinedEntries) THEN h.combinedEntries[i + 1] ELSE <<>>
         IN  [h EXCEPT !.index = i, !.buffer = value, !.cursorOffset = Len(value),
                       !.result = TRUE]

\* applyEntry(direction)
applyEntry(h, direction) ==
    IF Len(h.combinedEntries) = 0
    THEN [h EXCEPT !.result = FALSE]
    ELSE IF ~h.textareaRef
    THEN [h EXCEPT !.result = FALSE]
    ELSE LET i == IF direction = "up"
                  THEN Max(0, h.index - 1)
                  ELSE Min(Len(h.combinedEntries), h.index + 1)
             value == IF i < Len(h.combinedEntries) THEN h.combinedEntries[i + 1] ELSE <<>>
         IN  [h EXCEPT !.index = i, !.buffer = value, !.cursorOffset = Len(value),
                       !.result = TRUE]

\* Mutant: a navigation leaves the key armed.
handleHistoryKeyStayArmed(h, direction, time) ==
    IF h.lastKey.direction = direction /\ time - h.lastKey.time < DoublePressWindow
    THEN [applyEntry(h, direction) EXCEPT !.lastKey = [direction |-> direction, time |-> time]]
    ELSE [h EXCEPT !.lastKey = [direction |-> direction, time |-> time], !.result = FALSE]

\* handleHistoryKey(direction), called when Date.now() is time
handleHistoryKey(h, direction, time) ==
    IF h.lastKey.direction = direction /\ time - h.lastKey.time < DoublePressWindow
    THEN [applyEntry(h, direction) EXCEPT !.lastKey = NoKey]
    ELSE [h EXCEPT !.lastKey = [direction |-> direction, time |-> time], !.result = FALSE]

(***************************************************************************)
(* Initial state: the App component has just been mounted.                  *)
(***************************************************************************)
(***************************************************************************)
(* Values of the tool-approval hook and of the session config that the     *)
(* initial state names.                                                     *)
(***************************************************************************)
\* pendingApproval is null.
NoApproval == [callId |-> 0, correlationId |-> 0]

\* A field of the session config that is undefined.
Undefined == <<"undefined">>

\* useState<SessionConfig>({ provider: "openai" })
InitialConfig ==
    [provider |-> "openai", model |-> Undefined, apiKey |-> Undefined,
     keyFilePath |-> Undefined, baseUrl |-> Undefined]

Init ==
    /\ streamRunId = 0
    /\ mounted = TRUE
    /\ abortRef = 0
    /\ aborted = {}
    /\ streamState = "idle"
    /\ entries = <<>>
    /\ nextLineId = 0
    /\ responderWordCount = 0
    /\ runs = [r \in RunIds |-> FreshRun]
    /\ nextCallId = 0
    /\ cancels = 0
    /\ delivered = 0
    /\ origin = <<>>
    /\ service = FALSE
    /\ persisted = <<>>
    /\ pendingWrites = <<>>
    /\ historyLoaded = FALSE
    /\ loadedEntries = <<>>
    /\ sessionEntries = <<>>
    /\ combinedEntries = <<>>
    /\ index = 0
    /\ lastKey = NoKey
    /\ now = 0
    /\ textareaRef = TRUE
    /\ buffer = <<>>
    /\ cursorOffset = 0
    /\ promptCount = 0
    /\ autoFollow = TRUE
    /\ suggestions = <<>>
    /\ selectedIndex = 0
    /\ inputLineCount = MIN_INPUT_LINES
    /\ modal = "none"
    /\ exited = FALSE
    /\ approvalSession = TRUE
    /\ pendingApproval = NoApproval
    /\ renderedApproval = NoApproval
    /\ approvalQueueRef = <<>>
    /\ published = <<>>
    /\ queued = <<>>
    /\ shown = <<>>
    /\ sessionConfig = InitialConfig

(***************************************************************************)
(* Calls made by the user interface.  Key handlers are removed when the     *)
(* component unmounts, so they are made while it is mounted.                *)
(***************************************************************************)
Sessions == {"null", "session"}

\* Mutant: the run-id counter is incremented and the previous controller
\* aborted before validation.
InvokeSupersedeFirst(r, session) ==
    /\ mounted
    /\ runs[r].pc = "fresh"
    /\ \A q \in RunIds : q < r => runs[q].pc # "fresh"
    /\ streamRunId' = streamRunId + 1
    /\ aborted' = IF abortRef # 0 THEN aborted \cup {abortRef} ELSE aborted
    /\ IF session = "null"
       THEN /\ runs' = [runs EXCEPT ![r].pc = "rejected"]
            /\ entries' = Append(entries, ChatMessage(nextLineId + 1, "system", <<"N">>))
            /\ origin' = Append(origin, [run |-> r, round |-> 0])
            /\ nextLineId' = nextLineId + 1
            /\ UNCHANGED <<abortRef, streamState, responderWordCount>>
       ELSE /\ abortRef' = r
            /\ streamState' = "streaming"
            /\ runs' = [runs EXCEPT ![r] =
                            [FreshRun EXCEPT !.pc = "initial",
                                             !.currentRun = streamRunId + 1]]
            /\ UNCHANGED <<entries, origin, nextLineId, responderWordCount>>
    /\ UNCHANGED <<mounted, nextCallId, cancels, delivered, uiVars>>

\* Mutant: no validation; a missing session opens the event source as well.
InvokeUnvalidated(r, session) ==
    /\ mounted
    /\ runs[r].pc = "fresh"
    /\ \A q \in RunIds : q < r => runs[q].pc # "fresh"
    /\ streamRunId' = streamRunId + 1
    /\ aborted' = IF abortRef # 0 THEN aborted \cup {abortRef} ELSE aborted
    /\ abortRef' = r
    /\ streamState' = "streaming"
    /\ runs' = [runs EXCEPT ![r] =
                    [FreshRun EXCEPT !.pc = "initial", !.currentRun = streamRunId + 1]]
    /\ UNCHANGED <<entries, origin, nextLineId, responderWordCount>>
    /\ UNCHANGED <<mounted, nextCallId, cancels, delivered, uiVars>>

\* The responder, called with the chat store as s (s.self is the number of
\* the invocation): from its entry to its first await, or to its return
\* when there is no session.
StartResponder(s, session) ==
    IF session = "null"
    THEN /\ Commit([appendMessage(s, "system", <<"N">>) EXCEPT !.run.pc = "rejected"])
         /\ UNCHANGED <<streamRunId, aborted>>
    ELSE /\ streamRunId' = streamRunId + 1
         /\ aborted' = IF abortRef # 0 THEN aborted \cup {abortRef} ELSE aborted
         /\ Commit([s EXCEPT !.abortRef = s.self, !.streamState = "streaming",
                             !.run = [FreshRun EXCEPT !.pc = "initial",
                                                      !.currentRun = streamRunId + 1]])

\* The responder is invoked (invocation number r).
Invoke(r, session) ==
    /\ mounted
    /\ runs[r].pc = "fresh"
    /\ \A q \in RunIds : q < r => runs[q].pc # "fresh"
    /\ StartResponder(Store(r), session)
    /\ UNCHANGED <<mounted, nextCallId, cancels, delivered, uiVars>>

\* Mutant: cancel without the abort() call.
\* What cancelStreaming reads and writes.
Controls ==
    [streamRunId |-> streamRunId, abortRef |-> abortRef, aborted |-> aborted,
     streamState |-> streamState, threw |-> FALSE]

\* Mutant: cancelStreaming that flips the stream state.
cancelledToggling(c) ==
    [c EXCEPT !.streamRunId = @ + 1,
              !.aborted = IF c.abortRef # 0 THEN @ \cup {c.abortRef} ELSE @,
              !.streamState = IF @ = "idle" THEN "streaming" ELSE "idle"]

\* The body of cancelStreaming on the refs and the stream state c:
\*   streamRunId.current += 1; abortRef.current?.abort(); setStreamState("idle")
\* abort() is called on a controller only, never on null; threw records a
\* call on null.
cancelled(c) ==
    [c EXCEPT !.streamRunId = @ + 1,
              !.aborted = IF c.abortRef # 0 THEN @ \cup {c.abortRef} ELSE @,
              !.streamState = "idle"]

cancelWithoutAbort ==
    /\ mounted
    /\ cancels < MaxCancels
    /\ cancels' = cancels + 1
    /\ streamRunId' = streamRunId + 1
    /\ streamState' = "idle"
    /\ UNCHANGED <<mounted, abortRef, aborted, entries, nextLineId, responderWordCount,
                   runs, nextCallId, delivered, origin, uiVars>>

cancelStreaming ==
    /\ mounted
    /\ cancels < MaxCancels
    /\ cancels' = cancels + 1
    /\ LET c == cancelled(Controls)
       IN  /\ streamRunId' = c.streamRunId
           /\ aborted' = c.aborted
           /\ streamState' = c.streamState
    /\ UNCHANGED <<mounted, abortRef, entries, nextLineId, responderWordCount,
                   runs, nextCallId, delivered, origin, uiVars>>

\* The cleanup of useFocusAndMount's effect.
Unmount ==
    /\ mounted
    /\ mounted' = FALSE
    /\ UNCHANGED <<streamRunId, abortRef, aborted, streamState, entries, nextLineId,
                   responderWordCount, runs, nextCallId, cancels, delivered, origin, uiVars>>

(***************************************************************************)
(* Steps of a run: the promise it awaits resolves or rejects, and the run   *)
(* goes on to its next await or to its return.                              *)
(***************************************************************************)
RunFrame == UNCHANGED <<streamRunId, mounted, aborted, cancels, uiVars>>

\* The initial stream yields an event.
InitialEvent(r, offered) ==
    /\ runs[r].pc = "initial"
    /\ delivered < MaxEvents
    /\ delivered' = delivered + 1
    /\ \E event \in offered :
        /\ IF ~mounted \/ ~Current(runs[r])
           THEN /\ Commit([Store(r) EXCEPT !.run.pc = "breaking"])
                /\ UNCHANGED nextCallId
           ELSE /\ Commit(handleAdapterEvent(Hear(Store(r), event), event))
                /\ nextCallId' = Issued(event)
    /\ RunFrame

\* The initial stream ends.
InitialDone(r) ==
    /\ runs[r].pc = "initial"
    /\ Commit(whileLoop(Store(r)))
    /\ UNCHANGED <<nextCallId, delivered>>
    /\ RunFrame

\* A for-await loop was left by break and the iterator's return has settled.
AfterBreak(r) ==
    /\ runs[r].pc = "breaking"
    /\ Commit(whileLoop(Store(r)))
    /\ UNCHANGED <<nextCallId, delivered>>
    /\ RunFrame

\* The event source throws (initial or continuation stream).
StreamThrows(r) ==
    /\ runs[r].pc \in {"initial", "continuation"}
    /\ Commit(catchBlock(Store(r)))
    /\ UNCHANGED <<nextCallId, delivered>>
    /\ RunFrame

\* executeToolCall settles.
ToolSettles(r) ==
    /\ runs[r].pc = "tool"
    /\ \E outcome \in {"ok", "error", "throw"} :
        Commit(toolResolved(Store(r), outcome))
    /\ UNCHANGED <<nextCallId, delivered>>
    /\ RunFrame

\* A continuation stream yields an event: the run-id check, then the await
\* of import("../features/config/llxprtAdapter").
ContinuationEvent(r, offered) ==
    /\ runs[r].pc = "continuation"
    /\ delivered < MaxEvents
    /\ delivered' = delivered + 1
    /\ \E event \in offered :
        /\ IF ~Current(runs[r])
           THEN Commit([Store(r) EXCEPT !.run.pc = "breaking"])
           ELSE Commit([Store(r) EXCEPT !.run.pc = "import", !.run.event = event])
        /\ nextCallId' = IF Current(runs[r]) THEN Issued(event) ELSE nextCallId
    /\ RunFrame

\* The import has resolved: transformEvent and handleAdapterEvent.
ContinuationHandle(r) ==
    /\ runs[r].pc = "import"
    /\ Commit([handleAdapterEvent(Hear(Store(r), runs[r].event), runs[r].event)
                    EXCEPT !.run.event = NoEvent,
                           !.run.pc = "continuation"])
    /\ UNCHANGED <<nextCallId, delivered>>
    /\ RunFrame

\* A continuation stream ends.
ContinuationDone(r) ==
    /\ runs[r].pc = "continuation"
    /\ Commit(whileLoop(Store(r)))
    /\ UNCHANGED <<nextCallId, delivered>>
    /\ RunFrame

RunStep(r, offered) ==
    \/ InitialEvent(r, offered)
    \/ InitialDone(r)
    \/ AfterBreak(r)
    \/ StreamThrows(r)
    \/ ToolSettles(r)
    \/ ContinuationEvent(r, offered)
    \/ ContinuationHandle(r)
    \/ ContinuationDone(r)

Next ==
    \/ \E r \in RunIds, session \in Sessions : Invoke(r, session)
    \/ cancelStreaming
    \/ Unmount
    \/ \E r \in RunIds : InitialEvent(r, CoreEvents(runs[r]))
    \/ \E r \in RunIds : InitialDone(r)
    \/ \E r \in RunIds : AfterBreak(r)
    \/ \E r \in RunIds : StreamThrows(r)
    \/ \E r \in RunIds : ToolSettles(r)
    \/ \E r \in RunIds : ContinuationEvent(r, CoreEvents(runs[r]))
    \/ \E r \in RunIds : ContinuationHandle(r)
    \/ \E r \in RunIds : ContinuationDone(r)

Spec == Init /\ [][Next]_vars

(***************************************************************************)
(* One run against a backend that may yield every kind of event; the user   *)
(* may still cancel it and the component may still unmount.                 *)
(***************************************************************************)
SoloNext ==
    \/ \E session \in Sessions : Invoke(1, session)
    \/ cancelStreaming
    \/ Unmount
    \/ InitialEvent(1, StreamEvents(runs[1]))
    \/ InitialDone(1)
    \/ AfterBreak(1)
    \/ StreamThrows(1)
    \/ ToolSettles(1)
    \/ ContinuationEvent(1, StreamEvents(runs[1]))
    \/ ContinuationHandle(1)
    \/ ContinuationDone(1)

SoloSpec == Init /\ [][SoloNext]_vars

(***************************************************************************)
(* Scheduling: the event loop runs every settled promise's continuation,    *)
(* and the backend streams and tool executions of the model always settle.  *)
(***************************************************************************)
\* The liveness claim is about runs that are not cancelled while the
\* component stays mounted: a cancelStreaming or Unmount step discharges it at
\* once and for good (the run-id counter never decreases, mounted never
\* becomes true again), so the fair specification leaves these two steps out.
\* Supersession by a later invocation stays in.
FairNext ==
    \/ \E r \in RunIds, session \in Sessions : Invoke(r, session)
    \/ \E r \in RunIds : RunStep(r, CoreEvents(runs[r]))

FairSpec ==
    /\ Init
    /\ [][FairNext]_vars
    /\ \A r \in RunIds : WF_vars(RunStep(r, CoreEvents(runs[r])))

(***************************************************************************)
(* The transcript store on its own: its functions called in any order with  *)
(* any arguments, also ids and callIds that match no entry or several.      *)
(***************************************************************************)
Roles == {"user", "model", "thinking", "system"}

Updates == {[status |-> "executing"], [status |-> "complete", output |-> "out"]}

\* The callIds the store is called with: two, so that a callId may match no
\* entry, one entry or several.
StoreCallIds == {1, 2}

\* The store as a caller outside any run sees it.
UiStore == [Store(1) EXCEPT !.self = 0, !.run = FreshRun]

CommitUi(s) ==
    /\ entries' = s.entries
    /\ origin' = s.origin
    /\ nextLineId' = s.nextLineId
    /\ UNCHANGED <<streamRunId, mounted, abortRef, aborted, streamState,
                   responderWordCount, runs, nextCallId, cancels, delivered, uiVars>>

StoreAppendMessage ==
    /\ Len(entries) < MaxEntries
    /\ \E role \in Roles : CommitUi(appendMessage(UiStore, role, <<"a">>))

\* appendLines of the store that keeps lines: one or more lines at once.
StoreAppendLines ==
    \E role \in Roles, n \in 1..MaxUiLines :
        /\ Len(entries) + n <= MaxEntries
        /\ CommitUi(appendLines(UiStore, role, [k \in 1..n |-> <<"a">>]))

StoreAppendToMessage ==
    \E id \in 0..MaxEntries :
        /\ \A i \in DOMAIN entries : Len(entries[i].text) < MaxText
        /\ CommitUi(appendToMessage(UiStore, id, <<"a">>))

StoreAppendToolBlock ==
    /\ Len(entries) < MaxEntries
    /\ CommitUi(appendToolBlock(UiStore, << <<"a">> >>))

StoreAppendToolCall ==
    /\ Len(entries) < MaxEntries
    /\ \E callId \in StoreCallIds : CommitUi(appendToolCall(UiStore, callId))

StoreUpdateToolCall ==
    \E callId \in StoreCallIds, update \in Updates :
        CommitUi(updateToolCall(UiStore, callId, update))

StoreNext ==
    \/ StoreAppendMessage
    \/ StoreAppendLines
    \/ StoreAppendToMessage
    \/ StoreAppendToolBlock
    \/ StoreAppendToolCall
    \/ StoreUpdateToolCall

StoreSpec == Init /\ [][StoreNext]_vars

(***************************************************************************)
(* One run with the user interface appending beside it: handleSubmit        *)
(* appends the lines of the prompt with role user, and the command          *)
(* handlers append their messages with role system, each through            *)
(* appendLines.  What else these handlers do touches no variable of the     *)
(* model, except that handleSubmit goes on to invoke the responder: the     *)
(* invocation is a step of its own here, so it may follow at once or later. *)
(***************************************************************************)
UiLines == Cardinality({i \in DOMAIN entries : origin[i].run = 0})

SubmitAppendLines ==
    /\ mounted
    /\ \E n \in 1..MaxUiLines :
        /\ UiLines + n <= MaxUiLines
        /\ CommitUi(appendLines(UiStore, "user", [k \in 1..n |-> <<"a">>]))

CommandAppendLines ==
    /\ mounted
    /\ \E n \in 1..MaxUiLines :
        /\ UiLines + n <= MaxUiLines
        /\ CommitUi(appendLines(UiStore, "system", [k \in 1..n |-> <<"a">>]))

ChatNext ==
    \/ \E session \in Sessions : Invoke(1, session)
    \/ cancelStreaming
    \/ Unmount
    \/ RunStep(1, CoreEvents(runs[1]))
    \/ SubmitAppendLines
    \/ CommandAppendLines

ChatSpec == Init /\ [][ChatNext]_vars

(***************************************************************************)
(* The prompt history on its own: the effect that loads it, record, the     *)
(* arrow keys, the clock, the persistent service storing a prompt it was    *)
(* given, and the textarea going away.  The persistent service is outside   *)
(* the hook: what its history holds is found when getHistory() is called,   *)
(* and a prompt passed to its record is in its history some time later.     *)
(***************************************************************************)
Ticks == {200, 400}

\* The initial histories of the persistent service, newest first.
PersistedStores == {q \in UNION {[1..n -> Prompts] : n \in 0..MaxPersisted} : TRUE}

CommitHistory(h) ==
    /\ sessionEntries' = h.sessionEntries
    /\ combinedEntries' = h.combinedEntries
    /\ index' = h.index
    /\ lastKey' = h.lastKey
    /\ buffer' = h.buffer
    /\ cursorOffset' = h.cursorOffset
    /\ textareaRef' = h.textareaRef

\* useEffect: load persistent history on mount.
LoadHistory ==
    /\ ~historyLoaded
    /\ historyLoaded' = TRUE
    /\ \E given \in BOOLEAN, stored \in PersistedStores :
        /\ service' = given
        /\ persisted' = IF given THEN stored ELSE <<>>
        /\ loadedEntries' = persisted'
        /\ combinedEntries' = IF given THEN Reverse(stored) \o sessionEntries
                                       ELSE sessionEntries
        /\ index' = Len(combinedEntries')
    /\ UNCHANGED <<pendingWrites, sessionEntries, lastKey, now, editorVars, inputVars,
                   chatVars, panelVars>>

RecordPrompt ==
    /\ historyLoaded
    /\ Len(sessionEntries) < MaxRecords
    /\ \E prompt \in Prompts :
        /\ CommitHistory(record(History, prompt, persisted))
        /\ pendingWrites' = IF service THEN Append(pendingWrites, prompt) ELSE pendingWrites
    /\ UNCHANGED <<service, persisted, historyLoaded, loadedEntries, now, inputVars,
                   chatVars, panelVars>>

\* persistent.record(prompt) has put the prompt into the service's history.
PersistSettles ==
    /\ pendingWrites # <<>>
    /\ persisted' = <<Head(pendingWrites)>> \o persisted
    /\ pendingWrites' = Tail(pendingWrites)
    /\ UNCHANGED <<service, historyLoaded, loadedEntries, sessionEntries, combinedEntries,
                   index, lastKey, now, editorVars, inputVars, chatVars, panelVars>>

HistoryKey ==
    /\ historyLoaded
    /\ \E direction \in Directions : CommitHistory(handleHistoryKey(History, direction, now))
    /\ UNCHANGED <<service, persisted, pendingWrites, historyLoaded, loadedEntries, now,
                   inputVars, chatVars, panelVars>>

Tick ==
    /\ \E d \in Ticks : now + d <= MaxTime /\ now' = now + d
    /\ UNCHANGED <<service, persisted, pendingWrites, historyLoaded, loadedEntries,
                   sessionEntries, combinedEntries, index, lastKey, editorVars, inputVars,
                   chatVars, panelVars>>

\* The textarea is unmounted: textareaRef.current becomes null.
TextareaGone ==
    /\ textareaRef
    /\ textareaRef' = FALSE
    /\ UNCHANGED <<buffer, cursorOffset, historyVars, inputVars, chatVars, panelVars>>

HistoryNext ==
    \/ LoadHistory
    \/ RecordPrompt
    \/ PersistSettles
    \/ HistoryKey
    \/ Tick
    \/ TextareaGone

HistorySpec == Init /\ [][HistoryNext]_vars

(***************************************************************************)
(* useInputManager with useMentionSuggestions and useModalManager: the      *)
(* textarea, the suggestions and what handleSubmit writes are the record    *)
(* i.  started is the number of calls of startStreamingResponder the        *)
(* function called last has made.                                           *)
(***************************************************************************)
IsSpace(c) == c \in {" ", "\n"}

RECURSIVE trimStart(_)
trimStart(t) == IF t # <<>> /\ IsSpace(Head(t)) THEN trimStart(Tail(t)) ELSE t

RECURSIVE trimEnd(_)
trimEnd(t) ==
    IF t # <<>> /\ IsSpace(t[Len(t)]) THEN trimEnd(SubSeq(t, 1, Len(t) - 1)) ELSE t

trim(t) == trimEnd(trimStart(t))

\* raw.split(/\r?\n/), for a text without "\r"
RECURSIVE split(_)
split(t) ==
    IF \E k \in DOMAIN t : t[k] = "\n"
    THEN LET k == CHOOSE j \in DOMAIN t : t[j] = "\n" /\ \A l \in 1..(j - 1) : t[l] # "\n"
         IN  <<SubSeq(t, 1, k - 1)>> \o split(SubSeq(t, k + 1, Len(t)))
    ELSE <<t>>

SlashModel == <<"/", "m", "o", "d", "e", "l">>

SlashQuit == <<"/", "q", "u", "i", "t">>

\* MODAL_COMMANDS[command], "none" where the command is no key
ModalCommand(command) ==
    IF command = SlashModel THEN "model"
    ELSE IF command = <<"/", "p", "r", "o", "v", "i", "d", "e", "r">> THEN "provider"
    ELSE IF command = <<"/", "a", "u", "t", "h">> THEN "auth"
    ELSE IF command = <<"/", "t", "h", "e", "m", "e">> THEN "theme"
    ELSE "none"

\* The texts the user may have in the textarea.
Buffers ==
    {<<>>, <<" ">>, <<"a">>, <<" ", "a", " ">>, <<"a", "\n", "b">>,
     SlashModel, <<" ">> \o SlashModel \o <<"\n">>, SlashQuit,
     <<"@">>, <<"@", "a">>, <<"a", " ", "@", "b">>, <<"a", "@">>}

Input ==
    [textareaRef |-> textareaRef, buffer |-> buffer, cursorOffset |-> cursorOffset,
     promptCount |-> promptCount, autoFollow |-> autoFollow,
     suggestions |-> suggestions, selectedIndex |-> selectedIndex,
     inputLineCount |-> inputLineCount, modal |-> modal, exited |-> exited,
     store |-> UiStore, started |-> 0]

\* The lines of the text: the number of "\n" in it, plus one.
lineCount(t) == Len(split(t))

clampInputLines(value) == Min(MAX_INPUT_LINES, Max(MIN_INPUT_LINES, value))

(***************************************************************************)
(* The suggestion index.  A mention is an "@" at the start of the text or   *)
(* after whitespace, followed up to the cursor by characters that are not   *)
(* whitespace: these are the query.  The suggestions are the candidates     *)
(* the query is a prefix of, in the order of the catalog, cut to the limit. *)
(***************************************************************************)
NoMention == <<"none">>

Candidates == << <<"a">>, <<"a", "b">>, <<"b">> >>

MAX_SUGGESTION_COUNT == 2

\* The position of the "@" of the mention the cursor is in, 0 if there is none.
MentionStart(text, cursor) ==
    LET starts == {k \in 1..cursor :
                      /\ text[k] = "@"
                      /\ (k = 1 \/ IsSpace(text[k - 1]))
                      /\ \A l \in (k + 1)..cursor : ~IsSpace(text[l])}
    IN  IF starts = {} THEN 0 ELSE CHOOSE k \in starts : TRUE

extractMentionQuery(text, cursor) ==
    IF MentionStart(text, cursor) = 0
    THEN NoMention
    ELSE SubSeq(text, MentionStart(text, cursor) + 1, cursor)

IsPrefixOf(q, t) == Len(q) <= Len(t) /\ SubSeq(t, 1, Len(q)) = q

RECURSIVE Matching(_, _)
Matching(query, cands) ==
    IF cands = <<>> THEN <<>>
    ELSE IF IsPrefixOf(query, Head(cands))
         THEN <<Head(cands)>> \o Matching(query, Tail(cands))
         ELSE Matching(query, Tail(cands))

getSuggestions(query, limit) ==
    LET all == Matching(query, Candidates)
    IN  SubSeq(all, 1, Min(limit, Len(all)))

\* Mutant: refresh that keeps the selected index.
refreshKeepSelection(i) ==
    IF ~i.textareaRef
    THEN i
    ELSE LET mention == extractMentionQuery(i.buffer, i.cursorOffset)
         IN  IF mention = NoMention
             THEN [i EXCEPT !.suggestions = <<>>]
             ELSE [i EXCEPT !.suggestions = getSuggestions(mention, MAX_SUGGESTION_COUNT)]

\* Mutant: refresh that does not test the textarea handle: without a
\* textarea there is no text and no mention.
refreshUnguarded(i) ==
    LET mention == IF i.textareaRef THEN extractMentionQuery(i.buffer, i.cursorOffset)
                                    ELSE NoMention
    IN  IF mention = NoMention
        THEN [i EXCEPT !.suggestions = <<>>, !.selectedIndex = 0]
        ELSE [i EXCEPT !.suggestions = getSuggestions(mention, MAX_SUGGESTION_COUNT),
                       !.selectedIndex = 0]

\* useMentionSuggestions: refresh
refresh(i) ==
    IF ~i.textareaRef
    THEN i
    ELSE LET mention == extractMentionQuery(i.buffer, i.cursorOffset)
         IN  IF mention = NoMention
             THEN [i EXCEPT !.suggestions = <<>>, !.selectedIndex = 0]
             ELSE [i EXCEPT !.suggestions = getSuggestions(mention, MAX_SUGGESTION_COUNT),
                            !.selectedIndex = 0]

\* useMentionSuggestions: clear
clear(i) == [i EXCEPT !.suggestions = <<>>, !.selectedIndex = 0]

\* Mutant: moveSelection without the upper clamp.
moveSelectionUnclamped(i, delta) ==
    IF Len(i.suggestions) = 0
    THEN i
    ELSE [i EXCEPT !.selectedIndex = Max(0, i.selectedIndex + delta)]

\* useMentionSuggestions: moveSelection(delta)
moveSelection(i, delta) ==
    IF Len(i.suggestions) = 0
    THEN i
    ELSE LET next == i.selectedIndex + delta
         IN  [i EXCEPT !.selectedIndex =
                 IF next < 0 THEN 0
                 ELSE IF next >= Len(i.suggestions) THEN Len(i.suggestions) - 1
                 ELSE next]

\* useInputManager: enforceInputLineBounds
enforceInputLineBounds(i) ==
    IF ~i.textareaRef
    THEN i
    ELSE refresh([i EXCEPT !.inputLineCount = clampInputLines(lineCount(i.buffer))])

\* The completion callback App passes to useInputManager: the mention under
\* the cursor is replaced by the value and a space.
applyCompletion(i, value) ==
    IF ~i.textareaRef
    THEN i
    ELSE LET start == MentionStart(i.buffer, i.cursorOffset)
         IN  IF start = 0
             THEN i
             ELSE LET before == SubSeq(i.buffer, 1, start - 1)
                      after == SubSeq(i.buffer, i.cursorOffset + 1, Len(i.buffer))
                      completion == value \o <<" ">>
                  IN  [i EXCEPT !.buffer = before \o completion \o after,
                                !.cursorOffset = Len(before \o completion)]

\* useInputManager: handleTabComplete(value)
handleTabComplete(i, value) == refresh(applyCompletion(i, value))

\* useModalManager: handleCommand(command); consumed is what it returns.
handleCommand(i, command) ==
    IF ModalCommand(command) # "none"
    THEN [input |-> [i EXCEPT !.modal = ModalCommand(command)], consumed |-> TRUE]
    ELSE [input |-> i, consumed |-> FALSE]

\* editor.clear(); setInputLineCount(MIN_INPUT_LINES); setAutoFollow(true);
\* clearCompletion(); editor.submit()
submitted(i) ==
    clear([i EXCEPT !.buffer = <<>>, !.cursorOffset = 0,
                    !.inputLineCount = MIN_INPUT_LINES, !.autoFollow = TRUE])

\* Mutant: handleSubmit that goes on to the responder after a command.
handleSubmitCommandFallsThrough(i) ==
    IF ~i.textareaRef
    THEN i
    ELSE LET raw == trimEnd(i.buffer)
             trimmed == trim(raw)
             c == handleCommand(i, trimmed).input
         IN  IF Len(trim(raw)) = 0
             THEN i
             ELSE IF trimmed = SlashQuit
             THEN [i EXCEPT !.exited = TRUE]
             ELSE [submitted([c EXCEPT !.store = appendLines(c.store, "user", split(raw)),
                                       !.promptCount = @ + 1])
                      EXCEPT !.started = 1]

\* Mutant: handleSubmit without the test of the textarea handle: without a
\* textarea the text read is empty.
handleSubmitUnguarded(i) ==
    LET raw == IF i.textareaRef THEN trimEnd(i.buffer) ELSE <<"a">>
        trimmed == trim(raw)
        c == handleCommand(i, trimmed)
    IN  IF Len(trim(raw)) = 0
        THEN i
        ELSE IF c.consumed
        THEN submitted(c.input)
        ELSE IF trimmed = SlashQuit
        THEN [i EXCEPT !.exited = TRUE]
        ELSE [submitted([i EXCEPT !.store = appendLines(i.store, "user", split(raw)),
                                  !.promptCount = @ + 1])
                 EXCEPT !.started = 1]

\* useInputManager: handleSubmit, up to the call of startStreamingResponder
handleSubmit(i) ==
    IF ~i.textareaRef
    THEN i
    ELSE LET raw == trimEnd(i.buffer)
             trimmed == trim(raw)
             c == handleCommand(i, trimmed)
         IN  IF Len(trim(raw)) = 0
             THEN i
             ELSE IF c.consumed
             THEN submitted(c.input)
             ELSE IF trimmed = SlashQuit
             THEN [i EXCEPT !.exited = TRUE]
             ELSE [submitted([i EXCEPT !.store = appendLines(i.store, "user", split(raw)),
                                       !.promptCount = @ + 1])
                      EXCEPT !.started = 1]

(***************************************************************************)
(* The input side on its own: the user edits the text, submits, moves in    *)
(* the suggestions and completes; a modal closes; the textarea goes away.   *)
(* A run the responder starts stays at its first await here.                *)
(***************************************************************************)
Deltas == {-2, -1, 1, 2}

CommitInput(i) ==
    /\ textareaRef' = i.textareaRef
    /\ buffer' = i.buffer
    /\ cursorOffset' = i.cursorOffset
    /\ promptCount' = i.promptCount
    /\ autoFollow' = i.autoFollow
    /\ suggestions' = i.suggestions
    /\ selectedIndex' = i.selectedIndex
    /\ inputLineCount' = i.inputLineCount
    /\ modal' = i.modal
    /\ exited' = i.exited

\* What of the chat the input side leaves alone when no responder is called.
InputFrame ==
    UNCHANGED <<streamRunId, mounted, abortRef, aborted, streamState, responderWordCount,
                runs, nextCallId, cancels, delivered, historyVars, panelVars>>

\* The user edits the text or moves the cursor; the textarea reports the
\* change (onContentChange is enforceInputLineBounds).
EditText ==
    /\ mounted /\ ~exited /\ textareaRef
    /\ \E text \in Buffers : \E cursor \in {0, Len(text)} :
        CommitInput(enforceInputLineBounds([Input EXCEPT !.buffer = text,
                                                         !.cursorOffset = cursor]))
    /\ UNCHANGED <<entries, origin, nextLineId>>
    /\ InputFrame

\* The user scrolls up: setAutoFollow(false).
ScrollUp ==
    /\ mounted /\ ~exited /\ autoFollow
    /\ CommitInput([Input EXCEPT !.autoFollow = FALSE])
    /\ UNCHANGED <<entries, origin, nextLineId>>
    /\ InputFrame

\* Enter: handleSubmit, with the responder it calls.
Submit ==
    /\ mounted /\ ~exited
    /\ promptCount < MaxRuns
    /\ LET o == handleSubmit(Input)
       IN  /\ CommitInput(o)
           /\ IF o.started = 0
              THEN /\ entries' = o.store.entries
                   /\ origin' = o.store.origin
                   /\ nextLineId' = o.store.nextLineId
                   /\ InputFrame
              ELSE /\ \E r \in RunIds, session \in Sessions :
                        /\ runs[r].pc = "fresh"
                        /\ \A q \in RunIds : q < r => runs[q].pc # "fresh"
                        /\ StartResponder([Store(r) EXCEPT !.entries = o.store.entries,
                                                           !.origin = o.store.origin,
                                                           !.nextLineId = o.store.nextLineId],
                                          session)
                   /\ UNCHANGED <<mounted, nextCallId, cancels, delivered, historyVars,
                                   panelVars>>

\* The arrow keys while suggestions are shown.
MoveSelection ==
    /\ mounted /\ ~exited
    /\ \E delta \in Deltas : CommitInput(moveSelection(Input, delta))
    /\ UNCHANGED <<entries, origin, nextLineId>>
    /\ InputFrame

\* Tab while suggestions are shown: the selected suggestion is applied.
TabComplete ==
    /\ mounted /\ ~exited
    /\ Len(suggestions) > 0
    /\ selectedIndex < Len(suggestions)
    /\ CommitInput(handleTabComplete(Input, suggestions[selectedIndex + 1]))
    /\ UNCHANGED <<entries, origin, nextLineId>>
    /\ InputFrame

\* clearMentions, called on its own.
ClearSuggestions ==
    /\ mounted /\ ~exited
    /\ suggestions # <<>>
    /\ CommitInput(clear(Input))
    /\ UNCHANGED <<entries, origin, nextLineId>>
    /\ InputFrame

\* useModalManager: closeModal
CloseModal ==
    /\ mounted /\ ~exited
    /\ modal # "none"
    /\ CommitInput([Input EXCEPT !.modal = "none"])
    /\ UNCHANGED <<entries, origin, nextLineId>>
    /\ InputFrame

\* The textarea is unmounted while the component stays.
InputTextareaGone ==
    /\ textareaRef
    /\ CommitInput([Input EXCEPT !.textareaRef = FALSE])
    /\ UNCHANGED <<entries, origin, nextLineId>>
    /\ InputFrame

InputNext ==
    \/ EditText
    \/ ScrollUp
    \/ Submit
    \/ MoveSelection
    \/ TabComplete
    \/ ClearSuggestions
    \/ CloseModal
    \/ InputTextareaGone

InputSpec == Init /\ [][InputNext]_vars

(***************************************************************************)
(* The textarea with the history and the suggestions together: what the     *)
(* handlers that read the textarea do once it is gone.  The clock stands    *)
(* still here.                                                              *)
(***************************************************************************)
EditorNext ==
    \/ LoadHistory
    \/ RecordPrompt
    \/ HistoryKey
    \/ EditText
    \/ MoveSelection
    \/ InputTextareaGone

EditorSpec == Init /\ [][EditorNext]_vars

(***************************************************************************)
(* Slash completion.  A slash context is the "/" that begins the line the   *)
(* cursor is on, with the tokens typed after it up to the cursor; the       *)
(* suggestions are looked up in the command tree.                           *)
(***************************************************************************)
MaxSlashText == 4

MaxLimit == 5

NoSlash == [mode |-> "none"]

Greatest(S) == CHOOSE k \in S : \A l \in S : l <= k

\* The first position of the line the cursor is on.
LineStart(text, cursor) ==
    LET breaks == {k \in 1..cursor : text[k] = "\n"}
    IN  IF breaks = {} THEN 1 ELSE 1 + Greatest(breaks)

\* The tokens of a text, split at whitespace; a text that ends in whitespace
\* has the empty token as its last one.
RECURSIVE tokens(_)
tokens(t) ==
    IF t = <<>> THEN <<>>
    ELSE IF \A k \in DOMAIN t : IsSpace(t[k]) THEN << <<>> >>
    ELSE IF IsSpace(Head(t)) THEN tokens(Tail(t))
    ELSE LET ends == {k \in DOMAIN t : IsSpace(t[k])}
         IN  IF ends = {} THEN <<t>>
             ELSE LET k == CHOOSE j \in ends : \A l \in ends : j <= l
                  IN  <<SubSeq(t, 1, k - 1)>> \o tokens(SubSeq(t, k, Len(t)))

\* Mutant: the last "/" before the cursor begins the context wherever it is.
extractSlashContextAnywhere(text, cursor) ==
    LET slashes == {k \in 1..cursor : text[k] = "/"}
    IN  IF slashes = {} THEN NoSlash
        ELSE [mode |-> "slash", start |-> Greatest(slashes),
              parts |-> tokens(SubSeq(text, Greatest(slashes) + 1, cursor))]

extractSlashContext(text, cursor) ==
    LET start == LineStart(text, cursor)
    IN  IF start <= cursor /\ text[start] = "/"
        THEN [mode |-> "slash", start |-> start,
              parts |-> tokens(SubSeq(text, start + 1, cursor))]
        ELSE NoSlash

\* A node of the command tree.
SlashCommandNode(name, children) == [name |-> name, children |-> children]

\* The root commands.
SlashCommands ==
    << SlashCommandNode(<<"s", "t", "a", "t", "s">>,
           << SlashCommandNode(<<"m", "o", "d", "e", "l">>, <<>>),
              SlashCommandNode(<<"t", "o", "o", "l", "s">>, <<>>) >>),
       SlashCommandNode(<<"s", "e", "t">>,
           << SlashCommandNode(<<"e", "m", "o", "j", "i", "f", "i", "l", "t", "e", "r">>,
                  << SlashCommandNode(<<"w", "a", "r", "n">>, <<>>),
                     SlashCommandNode(<<"a", "l", "l", "o", "w", "e", "d">>, <<>>),
                     SlashCommandNode(<<"a", "u", "t", "o">>, <<>>) >>) >>) >>

\* Mutant: a path that ends at a leaf resolves to the level the leaf is on.
RECURSIVE ChildrenAtStayingOnLeaf(_, _)
ChildrenAtStayingOnLeaf(nodes, path) ==
    IF path = <<>> THEN nodes
    ELSE IF \E k \in DOMAIN nodes : nodes[k].name = Head(path)
         THEN LET node == nodes[CHOOSE k \in DOMAIN nodes : nodes[k].name = Head(path)]
              IN  IF node.children = <<>> THEN nodes
                  ELSE ChildrenAtStayingOnLeaf(node.children, Tail(path))
         ELSE <<>>

\* The children of the node the path resolves to from the given level: the
\* level itself for the empty path, none where the path names no node.
RECURSIVE ChildrenAt(_, _)
ChildrenAt(nodes, path) ==
    IF path = <<>> THEN nodes
    ELSE IF \E k \in DOMAIN nodes : nodes[k].name = Head(path)
         THEN ChildrenAt(nodes[CHOOSE k \in DOMAIN nodes : nodes[k].name = Head(path)].children,
                         Tail(path))
         ELSE <<>>

Contains(t, q) == \E k \in 0..(Len(t) - Len(q)) : SubSeq(t, k + 1, k + Len(q)) = q

RECURSIVE join(_)
join(path) ==
    IF path = <<>> THEN <<>>
    ELSE IF Len(path) = 1 THEN path[1]
    ELSE path[1] \o <<" ">> \o join(Tail(path))

getSlashSuggestions(parts, limit) ==
    LET path == IF parts = <<>> THEN <<>> ELSE SubSeq(parts, 1, Len(parts) - 1)
        token == IF parts = <<>> THEN <<>> ELSE parts[Len(parts)]
        level == ChildrenAt(SlashCommands, path)
        ranked == SelectSeq(level, LAMBDA n : IsPrefixOf(token, n.name))
                  \o SelectSeq(level, LAMBDA n : /\ ~IsPrefixOf(token, n.name)
                                                 /\ Contains(n.name, token))
        all == [k \in DOMAIN ranked |->
                   [value |-> ranked[k].name,
                    fullPath |-> <<"/">> \o join(path \o <<ranked[k].name>>),
                    hasChildren |-> ranked[k].children # <<>>]]
    IN  SubSeq(all, 1, Min(limit, Len(all)))

\* refresh() of the completion manager on a text without a mention: the
\* suggestions of the slash context at the cursor, none without a context;
\* the selection returns to the first.
slashRefresh(text, cursor) ==
    LET ctx == extractSlashContext(text, cursor)
    IN  IF ctx = NoSlash THEN <<>> ELSE getSlashSuggestions(ctx.parts, MAX_SUGGESTION_COUNT)

SlashKeys == {"/", "s", " ", "\n"}

SlashTexts ==
    {<<"/", "s", "t">>,
     <<"t", "e", "s", "t", "/", "s", "t">>,
     <<"/", "s", "t", "a", "t", "s", " ", "m", "o">>,
     <<"a", "\n", "/", "s", "e", "t", " ", " ", "e", "m", "o">>,
     <<"/", "s", "e", "t", " ", "e", "m", "o", "j", "i", "f", "i", "l", "t", "e", "r", " ",
       "a", "u", "t", "o", " ">>}

SlashFrame ==
    UNCHANGED <<chatVars, historyVars, textareaRef, promptCount, autoFollow,
                inputLineCount, modal, exited, panelVars>>

\* The user types a character at the cursor; the textarea reports the change
\* and the completion is refreshed.
SlashType ==
    /\ textareaRef /\ Len(buffer) < MaxSlashText
    /\ \E c \in SlashKeys :
        /\ buffer' = SubSeq(buffer, 1, cursorOffset) \o <<c>>
                     \o SubSeq(buffer, cursorOffset + 1, Len(buffer))
        /\ cursorOffset' = cursorOffset + 1
    /\ suggestions' = slashRefresh(buffer', cursorOffset')
    /\ selectedIndex' = 0
    /\ SlashFrame

\* The user pastes a text over the buffer.
SlashPaste ==
    /\ textareaRef
    /\ \E text \in SlashTexts : buffer' = text /\ cursorOffset' = Len(text)
    /\ suggestions' = slashRefresh(buffer', cursorOffset')
    /\ selectedIndex' = 0
    /\ SlashFrame

\* The user moves the cursor one character to the left.
CursorLeft ==
    /\ textareaRef /\ cursorOffset > 0
    /\ cursorOffset' = cursorOffset - 1
    /\ buffer' = buffer
    /\ suggestions' = slashRefresh(buffer, cursorOffset')
    /\ selectedIndex' = 0
    /\ SlashFrame

SlashNext == SlashType \/ SlashPaste \/ CursorLeft

SlashSpec == Init /\ [][SlashNext]_vars

(***************************************************************************)
(* Roles of an earlier transcript.  The lines appended through the older    *)
(* appendLines carry the role "responder"; migrateRole turns the role of a  *)
(* stored line into a MessageRole.                                          *)
(***************************************************************************)
LegacyRoles == {"user", "responder", "system", "thinking"}

\* Mutant: the role is returned as it is.
migrateRoleUnchanged(role) == role

migrateRole(role) == IF role = "responder" THEN "model" ELSE role

\* A line is appended with a role of the earlier transcript.
AppendLegacyLine ==
    /\ Len(entries) < MaxEntries
    /\ \E role \in LegacyRoles : CommitUi(appendMessage(UiStore, role, <<"a">>))

\* The role of a stored line is migrated.
MigrateEntry(i) ==
    /\ i \in DOMAIN entries
    /\ CommitUi([UiStore EXCEPT !.entries[i].role = migrateRole(@)])

MigrateNext == AppendLegacyLine \/ \E i \in 1..MaxEntries : MigrateEntry(i)

MigrateSpec == Init /\ [][MigrateNext]_vars

(***************************************************************************)
(* Tool approval.  The callbacks of useToolApproval read pendingApproval    *)
(* as it was when the component last rendered; approvalQueueRef is a ref    *)
(* and is read as it is.  setPendingApproval takes effect at the next       *)
(* render.                                                                  *)
(***************************************************************************)
MaxApprovals == 3

MaxPublished == 3

ApprovalCallIds == {1, 2}

Outcomes == {"allow_once", "allow_always", "cancel"}

mapOutcome(outcome) ==
    IF outcome = "allow_once" THEN "ProceedOnce"
    ELSE IF outcome = "allow_always" THEN "ProceedAlways"
    ELSE "Cancel"

Payload(correlationId, outcome, confirmed) ==
    [type |-> "tool-confirmation-response", correlationId |-> correlationId,
     outcome |-> outcome, confirmed |-> confirmed, requiresUserConfirmation |-> FALSE]

ToolApproval ==
    [session |-> approvalSession, pendingApproval |-> pendingApproval,
     rendered |-> renderedApproval, queue |-> approvalQueueRef, published |-> published]

processNextApproval(a) ==
    IF Len(a.queue) > 0
    THEN [a EXCEPT !.pendingApproval = Head(a.queue), !.queue = Tail(a.queue)]
    ELSE [a EXCEPT !.pendingApproval = NoApproval]

\* Mutant: the approval is shown at once only when nothing is shown or about
\* to be shown.
queueApprovalFresh(a, approval) ==
    LET pushed == [a EXCEPT !.queue = Append(@, approval)]
    IN  IF a.rendered = NoApproval /\ a.pendingApproval = NoApproval
        THEN processNextApproval(pushed)
        ELSE pushed

queueApproval(a, approval) ==
    LET pushed == [a EXCEPT !.queue = Append(@, approval)]
    IN  IF a.rendered = NoApproval THEN processNextApproval(pushed) ELSE pushed

\* Mutant: the decision is taken for whatever approval is shown.
handleDecisionAnyCall(a, callId, outcome) ==
    IF ~a.session \/ a.rendered = NoApproval THEN a
    ELSE processNextApproval(
             [a EXCEPT !.published =
                 Append(@, Payload(a.rendered.correlationId, mapOutcome(outcome),
                                   outcome # "cancel"))])

handleDecision(a, callId, outcome) ==
    IF ~a.session \/ a.rendered = NoApproval THEN a
    ELSE IF a.rendered.callId # callId THEN a
    ELSE processNextApproval(
             [a EXCEPT !.published =
                 Append(@, Payload(a.rendered.correlationId, mapOutcome(outcome),
                                   outcome # "cancel"))])

clearApproval(a) ==
    LET told == IF a.session /\ a.rendered # NoApproval
                THEN [a EXCEPT !.published =
                         Append(@, Payload(a.rendered.correlationId, "Cancel", FALSE))]
                ELSE a
    IN  [told EXCEPT !.queue = <<>>, !.pendingApproval = NoApproval]

CommitApproval(a) ==
    /\ pendingApproval' = a.pendingApproval
    /\ approvalQueueRef' = a.queue
    /\ published' = a.published
    /\ UNCHANGED <<approvalSession, renderedApproval, shown>>

ApprovalFrame == UNCHANGED <<chatVars, historyVars, editorVars, inputVars, sessionConfig>>

\* The backend asks for a confirmation: the approval is queued under a
\* correlationId of its own.
QueueApproval ==
    /\ mounted /\ Len(queued) < MaxApprovals
    /\ \E callId \in ApprovalCallIds :
        LET approval == [callId |-> callId, correlationId |-> Len(queued) + 1]
        IN  /\ CommitApproval(queueApproval(ToolApproval, approval))
            /\ queued' = Append(queued, approval)
    /\ ApprovalFrame

\* The user decides in the modal of the approval on screen.
HandleDecision(callId, outcome) ==
    /\ mounted /\ Len(published) < MaxPublished
    /\ CommitApproval(handleDecision(ToolApproval, callId, outcome))
    /\ UNCHANGED queued
    /\ ApprovalFrame

ClearApproval ==
    /\ mounted /\ Len(published) < MaxPublished
    /\ CommitApproval(clearApproval(ToolApproval))
    /\ UNCHANGED queued
    /\ ApprovalFrame

\* The component renders: the callbacks are made anew over the state.
RenderApproval ==
    /\ mounted
    /\ renderedApproval # pendingApproval
    /\ renderedApproval' = pendingApproval
    /\ shown' = IF pendingApproval = NoApproval THEN shown ELSE Append(shown, pendingApproval)
    /\ UNCHANGED <<approvalSession, pendingApproval, approvalQueueRef, published, queued>>
    /\ ApprovalFrame

\* The session is made or lost; the hook renders with the new one.
SetApprovalSession ==
    /\ mounted
    /\ approvalSession' = ~approvalSession
    /\ UNCHANGED <<pendingApproval, renderedApproval, approvalQueueRef, published, queued,
                   shown>>
    /\ ApprovalFrame

\* The component unmounts: the clean-up empties the queue.
ApprovalUnmount ==
    /\ mounted
    /\ mounted' = FALSE
    /\ approvalQueueRef' = <<>>
    /\ UNCHANGED <<streamRunId, abortRef, aborted, streamState, entries, nextLineId,
                   responderWordCount, runs, nextCallId, cancels, delivered, origin>>
    /\ UNCHANGED <<approvalSession, pendingApproval, renderedApproval, published, queued,
                   shown>>
    /\ UNCHANGED <<historyVars, editorVars, inputVars, sessionConfig>>

ApprovalNext ==
    \/ QueueApproval
    \/ \E callId \in ApprovalCallIds, outcome \in Outcomes : HandleDecision(callId, outcome)
    \/ ClearApproval
    \/ RenderApproval
    \/ SetApprovalSession
    \/ ApprovalUnmount

ApprovalSpec == Init /\ [][ApprovalNext]_vars

\* The queue with a session, while every shown approval is decided and
\* nothing clears the queue.
ApprovalQueueNext ==
    \/ QueueApproval
    \/ \E callId \in ApprovalCallIds, outcome \in Outcomes : HandleDecision(callId, outcome)
    \/ RenderApproval

ApprovalQueueSpec == Init /\ [][ApprovalQueueNext]_vars

(***************************************************************************)
(* Session config.  A command text is a sequence of pieces: the characters  *)
(* "/", " " and "\n", and words, each word standing for its characters.     *)
(* The values of the config are such texts; the provider is a word.         *)
(***************************************************************************)
ProviderKeys == {"openai", "gemini", "anthropic"}

\* toLowerCase() of a word.
LowerWord(w) ==
    IF w = "OpenAI" THEN "openai"
    ELSE IF w = "PROVIDER" THEN "provider"
    ELSE IF w = "LOAD" THEN "load"
    ELSE w

toLowerCase(t) == [k \in DOMAIN t |-> LowerWord(t[k])]

\* a ?? b
Coalesce(a, b) == IF a # Undefined THEN a ELSE b

\* !value of an optional string: undefined or the empty string
Falsy(value) == value = Undefined \/ value = <<>>

\* !value?.trim()
BlankOrUnset(value) == value = Undefined \/ trim(value) = <<>>

normalizeProvider(input) ==
    IF Falsy(input) THEN "null"
    ELSE LET lowered == toLowerCase(trim(input))
         IN  IF Len(lowered) = 1 /\ lowered[1] \in ProviderKeys THEN lowered[1] ELSE "null"

Result(handled, nextConfig, messages) ==
    [handled |-> handled, nextConfig |-> nextConfig, messages |-> messages]

\* Mutant: an unknown provider is stored as it was typed.
applyProviderUnchecked(argument, current) ==
    IF Falsy(argument)
    THEN Result(TRUE, current, <<"Provider is required. Usage: /provider <openai|gemini|anthropic>">>)
    ELSE Result(TRUE, [current EXCEPT !.provider = toLowerCase(trim(argument))[1]],
                <<"Provider set">>)

applyProvider(argument, current) ==
    IF Falsy(argument)
    THEN Result(TRUE, current, <<"Provider is required. Usage: /provider <openai|gemini|anthropic>">>)
    ELSE IF normalizeProvider(argument) = "null"
         THEN Result(TRUE, current, <<"Unknown provider">>)
         ELSE Result(TRUE, [current EXCEPT !.provider = normalizeProvider(argument)],
                     <<"Provider set">>)

\* Mutant: a missing argument clears the base URL.
applyBaseUrlClearing(argument, current) ==
    IF Falsy(argument)
    THEN Result(TRUE, [current EXCEPT !.baseUrl = Undefined],
                <<"Base URL is required. Usage: /baseurl <url>">>)
    ELSE Result(TRUE, [current EXCEPT !.baseUrl = argument], <<"Base URL set">>)

applyBaseUrl(argument, current) ==
    IF Falsy(argument)
    THEN Result(TRUE, current, <<"Base URL is required. Usage: /baseurl <url>">>)
    ELSE Result(TRUE, [current EXCEPT !.baseUrl = argument], <<"Base URL set">>)

\* Mutant: the keyfile is set and the API key is kept.
applyKeyFileKeepingKey(argument, current) ==
    IF Falsy(argument)
    THEN Result(TRUE, current, <<"Keyfile path is required. Usage: /keyfile <path>">>)
    ELSE Result(TRUE, [current EXCEPT !.keyFilePath = argument], <<"Keyfile configured">>)

applyKeyFile(argument, current) ==
    IF Falsy(argument)
    THEN Result(TRUE, current, <<"Keyfile path is required. Usage: /keyfile <path>">>)
    ELSE Result(TRUE, [current EXCEPT !.keyFilePath = argument, !.apiKey = Undefined],
                <<"Keyfile configured">>)

applyKey(argument, current) ==
    IF Falsy(argument)
    THEN Result(TRUE, current, <<"API key is required. Usage: /key <token>">>)
    ELSE Result(TRUE, [current EXCEPT !.apiKey = argument, !.keyFilePath = Undefined],
                <<"API key configured">>)

applyModel(argument, current) ==
    IF Falsy(argument)
    THEN Result(TRUE, current, <<"Model is required. Usage: /model <id>">>)
    ELSE Result(TRUE, [current EXCEPT !.model = argument], <<"Model set">>)

\* A profile as loadProfile returns it.
Profile(provider, dashBaseUrl, baseUrl, authKeyfile, model) ==
    [provider |-> provider,
     ephemeralSettings |-> [dashBaseUrl |-> dashBaseUrl, baseUrl |-> Undefined,
                            dashAuthKeyfile |-> Undefined, authKeyfile |-> authKeyfile,
                            model |-> Undefined],
     baseUrl |-> baseUrl, authKeyfile |-> Undefined, model |-> model]

\* What manager.loadProfile(name) may do: throw, or return one of these.
Throws == [provider |-> "throws"]

Loads ==
    {Throws,
     Profile(<<"gemini">>, Undefined, <<"pu">>, <<"pf">>, <<"pm">>),
     Profile(<<"gemini">>, <<"eu">>, <<"pu">>, <<"pf">>, <<"pm">>),
     Profile(<<"gemini">>, <<>>, <<"pu">>, <<"pf">>, <<"pm">>),
     Profile(<<"qwen">>, Undefined, <<"pu">>, <<"pf">>, <<"pm">>),
     Profile(Undefined, Undefined, <<"pu">>, <<"pf">>, <<"pm">>),
     Profile(<<"gemini">>, Undefined, Undefined, <<"pf">>, <<"pm">>),
     Profile(<<"gemini">>, Undefined, <<"pu">>, Undefined, <<"pm">>),
     Profile(<<"gemini">>, Undefined, <<"pu">>, <<"pf">>, Undefined)}

applyProfile(args, current, loaded) ==
    IF Len(args) = 0
    THEN Result(TRUE, current, <<"Profile name is required. Usage: /profile load <name>">>)
    ELSE LET action == IF Len(args) = 1 THEN <<"load">> ELSE args[1]
             name == IF Len(args) = 1 THEN args[1] ELSE args[2]
         IN  IF toLowerCase(action) # <<"load">>
             THEN Result(TRUE, current, <<"Usage: /profile load <name>">>)
             ELSE IF Falsy(name)
             THEN Result(TRUE, current,
                         <<"Profile name is required. Usage: /profile load <name>">>)
             ELSE IF loaded = Throws
             THEN Result(TRUE, current, <<"Failed to load synthetic profile">>)
             ELSE LET ephemeral == loaded.ephemeralSettings
                      provider == normalizeProvider(loaded.provider)
                      baseUrl == Coalesce(ephemeral.dashBaseUrl,
                                          Coalesce(ephemeral.baseUrl, loaded.baseUrl))
                      keyFilePath == Coalesce(ephemeral.dashAuthKeyfile,
                                              Coalesce(ephemeral.authKeyfile,
                                                       loaded.authKeyfile))
                      model == Coalesce(ephemeral.model, loaded.model)
                  IN  IF provider = "null" \/ Falsy(baseUrl) \/ Falsy(keyFilePath)
                         \/ Falsy(model)
                      THEN Result(TRUE, current,
                                  <<"Synthetic profile is incomplete; need provider, base-url, auth-keyfile, and model.">>)
                      ELSE Result(TRUE,
                                  [current EXCEPT !.provider = provider, !.baseUrl = baseUrl,
                                                  !.keyFilePath = keyFilePath,
                                                  !.model = model, !.apiKey = Undefined],
                                  <<"Loaded synthetic profile">>)

applyConfigCommand(rawInput, current, loaded) ==
    LET trimmed == trim(rawInput)
    IN  IF trimmed = <<>> \/ trimmed[1] # "/"
        THEN Result(FALSE, current, <<>>)
        ELSE LET body == trim(Tail(trimmed))
             IN  IF body = <<>>
                 THEN Result(FALSE, current, <<>>)
                 ELSE LET words == SelectSeq(tokens(body), LAMBDA token : Len(token) > 0)
                          rest == Tail(words)
                          command == toLowerCase(Head(words))
                          argument == trim(join(rest))
                      IN  IF command = <<"provider">>
                          THEN IF Falsy(argument)
                               THEN Result(FALSE, current, <<>>)
                               ELSE applyProvider(argument, current)
                          ELSE IF command \in {<<"baseurl">>, <<"base-url">>, <<"basurl">>}
                          THEN applyBaseUrl(argument, current)
                          ELSE IF command = <<"keyfile">>
                          THEN applyKeyFile(argument, current)
                          ELSE IF command = <<"key">>
                          THEN applyKey(argument, current)
                          ELSE IF command = <<"model">>
                          THEN IF Falsy(argument)
                               THEN Result(FALSE, current, <<>>)
                               ELSE applyModel(argument, current)
                          ELSE IF command = <<"profile">>
                          THEN applyProfile(rest, current, loaded)
                          ELSE Result(FALSE, current, <<>>)

\* Mutant: an API key that is set and blank counts as no key at all, and the
\* keyfile is looked at.
validateSessionConfigEither(config, requireModel) ==
    (IF BlankOrUnset(config.baseUrl) THEN <<"Base URL not set. Use /baseurl <url>.">> ELSE <<>>)
    \o (IF requireModel /\ BlankOrUnset(config.model)
        THEN <<"Model not set. Use /model <id>.">> ELSE <<>>)
    \o (IF BlankOrUnset(config.apiKey) /\ BlankOrUnset(config.keyFilePath)
        THEN <<"API key or keyfile not set. Use /key <token> or /keyfile <path>.">>
        ELSE <<>>)

\* requireModel is options?.requireModel !== false
validateSessionConfig(config, requireModel) ==
    LET hasKey == IF config.apiKey # Undefined
                  THEN trim(config.apiKey) # <<>>
                  ELSE config.keyFilePath # Undefined /\ trim(config.keyFilePath) # <<>>
    IN  (IF BlankOrUnset(config.baseUrl)
         THEN <<"Base URL not set. Use /baseurl <url>.">> ELSE <<>>)
        \o (IF requireModel /\ BlankOrUnset(config.model)
            THEN <<"Model not set. Use /model <id>.">> ELSE <<>>)
        \o (IF ~hasKey
            THEN <<"API key or keyfile not set. Use /key <token> or /keyfile <path>.">>
            ELSE <<>>)

\* The command texts typed.
ConfigInputs ==
    {<<"x">>, <<"/">>, <<" ", "/", " ">>, <<"/", "unknown", " ", "a">>,
     <<"/", "provider">>, <<"/", "provider", " ", "OpenAI">>,
     <<"/", "provider", " ", "qwen">>, <<"/", "provider", " ", "gemini">>,
     <<" ", "/", "PROVIDER", " ", " ", "anthropic", " ">>,
     <<"/", "provider", " ", "gemini", " ", "x">>,
     <<"/", "baseurl">>, <<"/", "baseurl", " ", "u">>, <<"/", "base-url", " ", "v">>,
     <<"/", "keyfile">>, <<"/", "keyfile", " ", "f">>,
     <<"/", "key">>, <<"/", "key", " ", "k">>, <<"/", "key", " ", "k", " ", " ", "k">>,
     <<"/", "model">>, <<"/", "model", " ", "m">>,
     <<"/", "profile">>, <<"/", "profile", " ", "p">>,
     <<"/", "profile", " ", "LOAD", " ", "p">>, <<"/", "profile", " ", "save", " ", "p">>}

\* PROVIDER_ENTRIES: the ids the provider picker lists.
PROVIDER_ENTRIES ==
    <<"openai", "openai-responses", "openai-vercel", "gemini", "anthropic", "synthetic",
      "qwen", "qwen-openai">>

\* listProviders(): the entries, each id once.
listProviders ==
    SelectSeq([k \in DOMAIN PROVIDER_ENTRIES |->
                  [id |-> PROVIDER_ENTRIES[k],
                   first |-> \A j \in 1..(k - 1) : PROVIDER_ENTRIES[j] # PROVIDER_ENTRIES[k]]],
              LAMBDA entry : entry.first)

\* handleProviderSelect of the modal manager: a supported id is stored.
handleProviderSelect(config, id) ==
    IF id \in ProviderKeys THEN [config EXCEPT !.provider = id] ELSE config

\* handleSelect of the provider command: the id is stored.
handleSelect(config, id) == [config EXCEPT !.provider = id]

handleModelSelect(config, id) == [config EXCEPT !.model = id]

ConfigFrame == UNCHANGED <<chatVars, historyVars, editorVars, inputVars, approvalVars>>

\* handleConfigCommand: the next config is stored when the command was handled.
ConfigCommand ==
    /\ \E rawInput \in ConfigInputs, loaded \in Loads :
        LET configResult == applyConfigCommand(rawInput, sessionConfig, loaded)
        IN  sessionConfig' = IF configResult.handled THEN configResult.nextConfig
                             ELSE sessionConfig
    /\ ConfigFrame

\* The user picks a provider in the modal of the modal manager.
ProviderSelect ==
    /\ \E k \in DOMAIN listProviders :
        sessionConfig' = handleProviderSelect(sessionConfig, listProviders[k].id)
    /\ ConfigFrame

\* The user picks a provider in the dialog of the provider command.
ProviderCommandSelect ==
    /\ \E k \in DOMAIN listProviders :
        sessionConfig' = handleSelect(sessionConfig, listProviders[k].id)
    /\ ConfigFrame

\* The user picks a model.
ModelSelect ==
    /\ \E id \in {<<"m">>, <<"n">>} : sessionConfig' = handleModelSelect(sessionConfig, id)
    /\ ConfigFrame

ConfigNext == ConfigCommand \/ ProviderSelect \/ ProviderCommandSelect \/ ModelSelect

ConfigSpec == Init /\ [][ConfigNext]_vars

\* The values an optional field of a SessionConfig may hold: undefined, the
\* empty string, a blank string, a string that is not blank.
ConfigValues == {Undefined, <<>>, <<" ">>, <<"v">>}

\* A session config is handed over from outside, as to the responder.
GivenConfig ==
    /\ \E provider \in ProviderKeys, model \in ConfigValues, apiKey \in ConfigValues,
          keyFilePath \in ConfigValues, baseUrl \in ConfigValues :
        sessionConfig' = [provider |-> provider, model |-> model, apiKey |-> apiKey,
                          keyFilePath |-> keyFilePath, baseUrl |-> baseUrl]
    /\ ConfigFrame

ValidateSpec == Init /\ [][GivenConfig]_vars

(***************************************************************************)
(* The Escape key: one run of the responder, the textarea, and the key      *)
(* handler that cancels the run or clears the input.                        *)
(***************************************************************************)
\* Mutant: the cursor goes home and the text stays.
clearInputKeepingText(i) ==
    enforceInputLineBounds(IF i.textareaRef THEN [i EXCEPT !.cursorOffset = 0] ELSE i)

\* The clearInput callback App passes to useSuggestionKeybindings.
clearInput(i) ==
    enforceInputLineBounds(IF i.textareaRef
                           THEN [i EXCEPT !.buffer = <<>>, !.cursorOffset = 0]
                           ELSE i)

\* key.name === "escape": isStreaming() is streamState === "streaming".
Escape ==
    /\ mounted /\ ~exited
    /\ IF streamState = "streaming"
       THEN /\ cancels < MaxCancels
            /\ cancels' = cancels + 1
            /\ LET c == cancelled(Controls)
               IN  /\ streamRunId' = c.streamRunId
                   /\ aborted' = c.aborted
                   /\ streamState' = c.streamState
            /\ UNCHANGED <<mounted, abortRef, entries, nextLineId, responderWordCount,
                           runs, nextCallId, delivered, origin, uiVars>>
       ELSE /\ CommitInput(clearInput(Input))
            /\ UNCHANGED <<entries, origin, nextLineId>>
            /\ InputFrame

EscapeNext ==
    \/ \E session \in Sessions : Invoke(1, session)
    \/ RunStep(1, CoreEvents(runs[1]))
    \/ EditText
    \/ InputTextareaGone
    \/ Escape

EscapeSpec == Init /\ [][EscapeNext]_vars

(***************************************************************************)
(* Vocabulary of the properties.                                            *)
(***************************************************************************)
InFlight(r) == runs[r].pc \in {"initial", "breaking", "tool", "continuation", "import"}

\* Run r took this step (its invocation itself excluded): the step is one of
\* the run's own, for some event the backend may yield.
Stepped(r) == RunStep(r, StreamEvents(runs[r]))

\* Run r was invoked in this step.
Invoked(r) == runs[r].pc = "fresh" /\ runs'[r].pc # "fresh"

\* The transcript positions of the ToolCall entries run r appended.
ToolEntries(r) ==
    {i \in DOMAIN entries : entries[i].kind = "toolcall" /\ origin[i].run = r}

\* The status of the ToolCall entry with the given callId in transcript es.
StatusOf(es, callId) ==
    LET i == CHOOSE j \in DOMAIN es : es[j].kind = "toolcall" /\ es[j].callId = callId
    IN  es[i].status

(***************************************************************************)
(* C1.  Run fencing: a run that is no longer the current one (a later run   *)
(* was started, or cancel incremented the run-id counter) makes no further  *)
(* change to the transcript.                                                *)
(***************************************************************************)
C1_RunFencing ==
    [][\A r \in RunIds :
        Stepped(r) /\ ~Current(runs[r]) => entries' = entries]_vars

C3_CancelFences ==
    [][/\ cancels' # cancels =>
            /\ streamState' = "idle"
            /\ \A r \in RunIds :
                InFlight(r) => streamRunId' > runs[r].currentRun /\ r \in aborted'
       /\ \A r \in RunIds :
            Stepped(r) /\ streamState # "streaming" => streamState' # "streaming"]_vars

\* A run that was current is in flight, cancelled.
C3_Witness ==
    /\ cancels = 1
    /\ \E r \in RunIds :
        /\ InFlight(r) /\ r \in aborted /\ abortRef = r
        /\ streamRunId = runs[r].currentRun + 1
    /\ streamState = "idle"

(***************************************************************************)
(* C4.  While a run is in flight and current, the stream state is streaming *)
(* and abortRef holds its controller; a run that finishes after a later run *)
(* was started changes neither.                                             *)
(***************************************************************************)
LaterStarted(r) == \E q \in RunIds : runs[q].currentRun > runs[r].currentRun

C4_StaleFinishKeepsCurrent ==
    [][/\ \A r \in RunIds :
            (InFlight(r) /\ Current(runs[r]))' => streamState' = "streaming" /\ abortRef' = r
       /\ \A r \in RunIds :
            (Stepped(r) /\ runs'[r].pc = "done" /\ LaterStarted(r)) =>
                UNCHANGED <<streamState, abortRef>>]_vars

\* Run 1 has finished fenced (superseded by run 2, no cancel, still mounted)
\* and run 2 is in flight.
C4_Witness ==
    /\ mounted /\ cancels = 0
    /\ runs[1].pc = "done" /\ runs[1].exit \in {"fenced", "threw"}
    /\ 1 \in aborted
    /\ InFlight(2) /\ Current(runs[2])
    /\ streamState = "streaming" /\ abortRef = 2

(***************************************************************************)
(* C5.  Liveness: a run in flight eventually returns with the stream state  *)
(* idle and the stored abort controller null, unless it is superseded or    *)
(* cancelled or the component unmounts; also when its event source throws.  *)
(* Streams are finite, tool executions settle and the last round requests   *)
(* no tool by the bounds of the model; fairness makes every settled promise *)
(* resume its run.                                                          *)
(***************************************************************************)
C5_EventuallyIdle ==
    \A r \in RunIds :
        InFlight(r) ~>
            \/ ~mounted
            \/ ~Current(runs[r])
            \/ runs[r].pc = "done" /\ streamState = "idle" /\ abortRef = 0

\* A run whose event source threw in a continuation round has returned,
\* current and mounted, with the stream state idle and no stored controller.
C5_Witness ==
    \E r \in RunIds :
        /\ runs[r].pc = "done" /\ runs[r].exit = "threw" /\ runs[r].round > 0
        /\ mounted /\ Current(runs[r])
        /\ streamState = "idle" /\ abortRef = 0

(***************************************************************************)
(* C6.  Mounted fencing: once the mounted flag is false, no step of a run   *)
(* changes the transcript or the stream state.                              *)
(***************************************************************************)
C6_MountedFencing ==
    [][\A r \in RunIds :
        Stepped(r) /\ ~mounted =>
            entries' = entries /\ streamState' = streamState]_vars

(***************************************************************************)
(* C7.  Once a run is superseded or its abort signal has fired, it sends no *)
(* further continuation request to the backend and marks no further queued  *)
(* tool as executing.                                                       *)
(***************************************************************************)
MarksExecuting ==
    \E i \in DOMAIN entries :
        entries'[i].status = "executing" /\ entries[i].status # "executing"

C7_NoContinuationAfterAbort ==
    [][\A r \in RunIds :
        Stepped(r) /\ (~Current(runs[r]) \/ Aborted(r)) =>
            runs'[r].round = runs[r].round /\ ~MarksExecuting]_vars

(***************************************************************************)
(* C8.  A run that returns uninterrupted (mounted, current, not aborted,    *)
(* no exception) after its initial stream queued tools that all executed    *)
(* successfully has re-invoked the backend with the collected responses,    *)
(* has every one of its ToolCall entries in status complete, and has each   *)
(* of them before every model message of a later round; and a run appends   *)
(* text only to a message it created in its current round after all the     *)
(* ToolCall entries it has appended so far.                                 *)
(***************************************************************************)
\* The callIds of the ToolCall entries run r appended in round k, in
\* transcript order.
QueuedIn(r, k) ==
    LET F[n \in 0..Len(entries)] ==
            IF n = 0 THEN <<>>
            ELSE IF n \in ToolEntries(r) /\ origin[n].round = k
                 THEN Append(F[n - 1], entries[n].callId)
                 ELSE F[n - 1]
    IN  F[Len(entries)]

C8_CleanToolRun(r) ==
    (/\ runs[r].pc = "done" /\ runs[r].exit = "clean" /\ ~runs[r].execFailed
     /\ QueuedIn(r, 0) # <<>>)
    => /\ runs[r].round >= 1
       /\ runs[r].request = QueuedIn(r, runs[r].round - 1)
       /\ \A i \in ToolEntries(r) :
            /\ entries[i].status = "complete"
            /\ \A j \in DOMAIN entries :
                (/\ entries[j].kind = "message" /\ entries[j].role = "model"
                 /\ origin[j].run = r /\ origin[j].round > origin[i].round) => i < j

C8_TextGoesToOpenMessage ==
    \A i \in DOMAIN entries :
        entries'[i].text # entries[i].text =>
            \E r \in RunIds :
                /\ Stepped(r)
                /\ origin[i] = [run |-> r, round |-> runs[r].round]
                /\ \A j \in ToolEntries(r) : j < i

C8_ToolThenNewMessage ==
    [][(\A r \in RunIds : C8_CleanToolRun(r))' /\ C8_TextGoesToOpenMessage]_vars

\* The run wrote a model message, then queued a tool that executed, then got
\* text from the continuation stream in a new model message, and returned.
C8_Witness ==
    /\ runs[1].pc = "done" /\ runs[1].exit = "clean" /\ ~runs[1].execFailed
    /\ runs[1].round = 1
    /\ Len(entries) = 3
    /\ entries[1].role = "model" /\ entries[1].text = <<"a">> /\ origin[1].round = 0
    /\ entries[2].kind = "toolcall" /\ entries[2].status = "complete"
    /\ entries[3].role = "model" /\ origin[3].round = 1
    /\ runs[1].request = <<entries[2].callId>>

(***************************************************************************)
(* C9.  The queued tools of a run are executed one after the other in the   *)
(* order their tool_pending events arrived: while tool k is executing,      *)
(* every earlier tool of the round is complete or error and no later one    *)
(* is executing; at most one ToolCall of a run is executing at any time,    *)
(* and none while the run is not awaiting a tool.                           *)
(***************************************************************************)
Executing(r) == {i \in ToolEntries(r) : entries[i].status = "executing"}

C9_SequentialTools ==
    \A r \in RunIds :
        /\ Cardinality(Executing(r)) <= 1
        /\ runs[r].pc # "tool" => Executing(r) = {}
        /\ runs[r].pc = "tool" =>
            LET queue == runs[r].pendingToolRequests
                k == runs[r].toolIdx
            IN  /\ queue = QueuedIn(r, runs[r].round)
                /\ k \in DOMAIN queue
                /\ StatusOf(entries, queue[k]) = "executing"
                /\ \A j \in 1..(k - 1) :
                    StatusOf(entries, queue[j]) \in {"complete", "error"}
                /\ \A j \in (k + 1)..Len(queue) :
                    StatusOf(entries, queue[j]) # "executing"

\* The second queued tool is executing after the first one has finished.
C9_Witness ==
    \E r \in RunIds :
        /\ runs[r].pc = "tool" /\ runs[r].toolIdx = 2
        /\ StatusOf(entries, runs[r].pendingToolRequests[1]) = "complete"
        /\ StatusOf(entries, runs[r].pendingToolRequests[2]) = "executing"

(***************************************************************************)
(* C10.  Tool k of a run fails (executeToolCall throws or returns an        *)
(* error): the step in which the run handles the failure.                   *)
(***************************************************************************)
FailedTool(r) == runs[r].pendingToolRequests[runs[r].toolIdx]

ToolFails(r) ==
    /\ runs[r].pc = "tool"
    /\ Stepped(r)
    /\ StatusOf(entries', FailedTool(r)) = "error"

\* Only tool k's entry gets status error, with the error message; no entry
\* is appended; the only other change is the next tool becoming executing.
C10_OnlyThatTool(r) ==
    /\ Len(entries') = Len(entries)
    /\ \A i \in DOMAIN entries :
        IF entries[i].kind = "toolcall" /\ entries[i].callId = FailedTool(r)
        THEN /\ entries'[i].status = "error"
             /\ entries'[i].errorMessage \in {"response.error", "thrown"}
        ELSE \/ entries'[i] = entries[i]
             \/ /\ runs'[r].pc = "tool"
                /\ entries[i].callId = runs'[r].pendingToolRequests[runs'[r].toolIdx]
                /\ entries'[i] = [entries[i] EXCEPT !.status = "executing"]

\* The next queued tool is executed, or, after the last one, the collected
\* responses are sent back to the backend as a continuation.
C10_SiblingsGoOn(r) ==
    LET queue == runs[r].pendingToolRequests
        k == runs[r].toolIdx
        collected ==
            IF StatusOf(entries', queue[k]) = "error"
               /\ \E i \in DOMAIN entries :
                    /\ entries[i].callId = queue[k]
                    /\ entries'[i].errorMessage = "response.error"
            THEN Append(runs[r].responseParts, queue[k])
            ELSE runs[r].responseParts
    IN  IF k < Len(queue)
        THEN /\ runs'[r].pc = "tool"
             /\ runs'[r].toolIdx = k + 1
             /\ runs'[r].pendingToolRequests = queue
             /\ StatusOf(entries', queue[k + 1]) = "executing"
        ELSE /\ runs'[r].pc = "continuation"
             /\ runs'[r].round = runs[r].round + 1
             /\ runs'[r].request = collected

(***************************************************************************)
(* C10, as claimed: whenever tool k fails, only its entry gets status       *)
(* error, every later queued tool of the round is still executed and the    *)
(* collected responses are sent as a continuation, with no system message.  *)
(***************************************************************************)
C10_FailureNeverStopsSiblings ==
    [][\A r \in RunIds :
        ToolFails(r) => C10_OnlyThatTool(r) /\ C10_SiblingsGoOn(r)]_vars

(***************************************************************************)
(* C10, amended: whenever tool k fails, only its entry gets status error,   *)
(* with the error message, and no system message is appended; as long as    *)
(* the run's abort signal has not fired, the next queued tool of the round  *)
(* is executed and, after the last one, the collected responses are sent    *)
(* as a continuation.  Once the signal has fired no later tool is started.  *)
(***************************************************************************)
C10_FailureIsolated ==
    [][\A r \in RunIds :
        ToolFails(r) =>
            /\ C10_OnlyThatTool(r)
            /\ ~Aborted(r) => C10_SiblingsGoOn(r)
            /\ Aborted(r) => runs'[r].pc # "tool"]_vars

\* The first queued tool has thrown and the second one is executing.
C10_Witness ==
    /\ runs[1].pc = "tool" /\ runs[1].toolIdx = 2
    /\ \E i \in DOMAIN entries :
        /\ entries[i].callId = runs[1].pendingToolRequests[1]
        /\ entries[i].status = "error" /\ entries[i].errorMessage = "thrown"
    /\ StatusOf(entries, runs[1].pendingToolRequests[2]) = "executing"
    /\ \A i \in DOMAIN entries : entries[i].role # "system"


(***************************************************************************)
(* C11.  An invocation of the responder with a missing session appends      *)
(* exactly one entry, a system message, to the transcript and returns: the  *)
(* stream state, the run-id counter and the controllers are left as they    *)
(* were, the invocation is never in flight (it opens no event source, so    *)
(* the backend yields no event to it) and it never takes a step afterwards. *)
(***************************************************************************)
C11_MissingSessionRejected ==
    [][\A r \in RunIds :
        /\ Invoke(r, "null") =>
            /\ Len(entries') = Len(entries) + 1
            /\ SubSeq(entries', 1, Len(entries)) = entries
            /\ entries'[Len(entries')].kind = "message"
            /\ entries'[Len(entries')].role = "system"
            /\ ~InFlight(r)'
            /\ UNCHANGED <<streamState, streamRunId, abortRef, aborted, delivered,
                           responderWordCount>>
        /\ runs[r].pc = "rejected" => runs'[r] = runs[r] /\ ~Stepped(r)]_vars

\* The first invocation had no session and appended its one system message;
\* a later invocation with a session is streaming.
C11_Witness ==
    /\ runs[1].pc = "rejected"
    /\ runs[2].pc = "initial" /\ delivered > 0
    /\ \E i \in DOMAIN entries : entries[i].role = "system" /\ origin[i].run = 1
    /\ Cardinality({i \in DOMAIN entries : origin[i].run = 1}) = 1


(***************************************************************************)
(* C12.  The event source of a run throws while the run's abort signal has  *)
(* not fired: exactly one entry is appended, the system message with the    *)
(* error text; the run returns in that step, with the stream state idle if  *)
(* it is current and the component mounted; and a run that has returned     *)
(* takes no further step, so it never calls the backend again.              *)
(***************************************************************************)
C12_ThrowReportedOnce ==
    [][\A r \in RunIds :
        /\ StreamThrows(r) /\ ~Aborted(r) =>
            /\ entries' = Append(entries, ChatMessage(nextLineId + 1, "system", <<"X">>))
            /\ runs'[r].pc = "done"
            /\ runs'[r].round = runs[r].round
            /\ mounted /\ Current(runs[r]) => streamState' = "idle"
        /\ runs[r].pc = "done" => runs'[r] = runs[r] /\ ~Stepped(r)]_vars

\* The event source of a current run threw before any event: the transcript
\* is the one error message, the run has returned and the state is idle.
C12_Witness ==
    \E r \in RunIds :
        /\ runs[r].pc = "done" /\ runs[r].exit = "threw" /\ r \notin aborted
        /\ mounted /\ Current(runs[r]) /\ streamState = "idle"
        /\ Cardinality({i \in DOMAIN entries : origin[i].run = r}) = 1
        /\ entries[Len(entries)] = ChatMessage(nextLineId, "system", <<"X">>)
        /\ origin[Len(entries)].run = r

(***************************************************************************)
(* C13.  The event source of a run throws after the run's abort signal has  *)
(* fired (cancelStreaming, or a later invocation): the transcript is left   *)
(* as it was, no id is drawn, and the run returns.                          *)
(***************************************************************************)
C13_AbortIsNotAnError ==
    [][\A r \in RunIds :
        StreamThrows(r) /\ Aborted(r) =>
            /\ UNCHANGED <<entries, nextLineId>>
            /\ runs'[r].pc = "done"]_vars

\* Run 1 was superseded by run 2 and run 2 was cancelled; the event sources
\* of both threw afterwards, and the transcript is empty.
C13_Witness ==
    /\ runs[1].exit = "threw" /\ runs[2].exit = "threw"
    /\ aborted = {1, 2} /\ cancels = 1
    /\ entries = <<>>


(***************************************************************************)
(* C14.  What the deltas a run has processed amount to, said without the    *)
(* stream context: the deltas of one kind are cut into sequences at every   *)
(* tool_pending event (and, when perStream, at the start of every           *)
(* continuation stream); each sequence is one text, the concatenation in    *)
(* arrival order of its deltas from the first one that is not               *)
(* whitespace-only, and no text at all if there is no such delta.           *)
(***************************************************************************)
Concatenated(heard, type, perStream) ==
    LET F[n \in 0..Len(heard)] ==
            IF n = 0 THEN [closed |-> <<>>, open |-> <<>>]
            ELSE LET h == heard[n]
                     prev == F[n - 1]
                     cut == \/ h.event.type = "tool_pending"
                            \/ perStream /\ n > 1 /\ heard[n - 1].round # h.round
                     base == IF cut /\ prev.open # <<>>
                             THEN [closed |-> Append(prev.closed, prev.open), open |-> <<>>]
                             ELSE prev
                 IN  IF h.event.type # type THEN base
                     ELSE IF base.open = <<>> /\ IsBlank(h.event.text) THEN base
                     ELSE [base EXCEPT !.open = @ \o h.event.text]
        last == F[Len(heard)]
    IN  IF last.open = <<>> THEN last.closed ELSE Append(last.closed, last.open)

\* The texts of the messages of the given role that run r appended, in
\* transcript order.
Written(r, role) ==
    LET F[n \in 0..Len(entries)] ==
            IF n = 0 THEN <<>>
            ELSE IF /\ origin[n].run = r
                    /\ entries[n].kind = "message" /\ entries[n].role = role
                 THEN Append(F[n - 1], entries[n].text)
                 ELSE F[n - 1]
    IN  F[Len(entries)]

NoBlankMessage ==
    \A i \in DOMAIN entries :
        entries[i].role \in {"model", "thinking"} => ~IsBlank(entries[i].text)

(***************************************************************************)
(* C14, as claimed: the text_delta events a run processes with no           *)
(* tool_pending event between them make exactly one model message, whose    *)
(* text is their concatenation in arrival order from the first delta that   *)
(* is not whitespace-only; likewise thinking_delta events and the thinking  *)
(* message; no model or thinking message is blank.                          *)
(***************************************************************************)
C14_OneMessagePerRun ==
    /\ \A r \in RunIds :
        /\ Written(r, "model") = Concatenated(runs[r].heard, "text_delta", FALSE)
        /\ Written(r, "thinking") = Concatenated(runs[r].heard, "thinking_delta", FALSE)
    /\ NoBlankMessage

(***************************************************************************)
(* C14, amended: the text_delta events a run processes within one event     *)
(* stream (the initial stream or one continuation stream) with no           *)
(* tool_pending event between them make exactly one model message, whose    *)
(* text is their concatenation in arrival order from the first delta that   *)
(* is not whitespace-only; the first such delta of a later stream opens a   *)
(* new message.  Likewise thinking_delta events and the thinking message;   *)
(* no model or thinking message is blank.                                   *)
(***************************************************************************)
C14_OneMessagePerStream ==
    /\ \A r \in RunIds :
        /\ Written(r, "model") = Concatenated(runs[r].heard, "text_delta", TRUE)
        /\ Written(r, "thinking") = Concatenated(runs[r].heard, "thinking_delta", TRUE)
    /\ NoBlankMessage

\* A whitespace-only delta, then "a", then a whitespace-only delta: one
\* model message "a ".
C14_Witness ==
    /\ Len(runs[1].heard) = 3
    /\ \A n \in 1..3 : runs[1].heard[n].event.type = "text_delta"
    /\ IsBlank(runs[1].heard[1].event.text)
    /\ Written(1, "model") = << <<"a", " ">> >>
    /\ Len(entries) = 1


(***************************************************************************)
(* Vocabulary: the event a run passes to handleAdapterEvent in a step.      *)
(***************************************************************************)
\* Run r handles an event in this step.
Handles(r) == Len(runs'[r].heard) = Len(runs[r].heard) + 1

\* The event run r handles in this step.
Handled(r) == runs'[r].heard[Len(runs'[r].heard)].event

\* The events run r has handled since the last tool_pending event, if it has
\* handled a tool_pending event.
AfterTool(r) ==
    LET heard == runs[r].heard
        tools == {n \in DOMAIN heard : heard[n].event.type = "tool_pending"}
    IN  IF tools = {} THEN {}
        ELSE {heard[n].event : n \in {m \in DOMAIN heard : \A t \in tools : m > t}}

HasToolBefore(r) == \E n \in DOMAIN runs[r].heard : runs[r].heard[n].event.type = "tool_pending"

RoleOf(type) == IF type = "text_delta" THEN "model" ELSE "thinking"

(***************************************************************************)
(* C15.  A tool_pending event appends one entry, a ToolCall in status       *)
(* pending with the event's id as callId, and clears both open message      *)
(* ids; no delta is ever appended to a message that lies before a ToolCall  *)
(* entry of the same run.                                                   *)
(***************************************************************************)
C15_ToolPendingCloses(r) ==
    /\ (Handles(r) /\ Handled(r).type = "tool_pending") =>
            /\ entries' = Append(entries, ToolCall(nextLineId + 1, Handled(r).id))
            /\ runs'[r].modelMessageId = 0
            /\ runs'[r].thinkingMessageId = 0
    /\ Handles(r) =>
            \A i \in DOMAIN entries :
                entries'[i].text # entries[i].text =>
                    \A j \in ToolEntries(r) : j < i

\* The delta handled in this step is appended as a new message at the end of
\* the transcript, after every ToolCall entry.
OpensMessage(r) ==
    /\ entries' = Append(entries,
                         ChatMessage(nextLineId + 1, RoleOf(Handled(r).type), Handled(r).text))
    /\ \A j \in ToolEntries(r) : j < Len(entries')

(***************************************************************************)
(* C15, as claimed: ... and the first text_delta and the first              *)
(* thinking_delta after a tool_pending event each create a new message      *)
(* entry, after the ToolCall entry.                                         *)
(***************************************************************************)
C15_FirstDeltaOpensMessage ==
    [][\A r \in RunIds :
        /\ C15_ToolPendingCloses(r)
        /\ \A type \in {"text_delta", "thinking_delta"} :
            (/\ Handles(r) /\ Handled(r).type = type
             /\ HasToolBefore(r)
             /\ \A e \in AfterTool(r) : e.type # type)
            => OpensMessage(r)]_vars

(***************************************************************************)
(* C15, amended: ... and the first text_delta and the first thinking_delta  *)
(* after a tool_pending event that is not whitespace-only each create a new *)
(* message entry, after the ToolCall entry; whitespace-only deltas before   *)
(* it create no entry.                                                      *)
(***************************************************************************)
C15_FirstTextOpensMessage ==
    [][\A r \in RunIds :
        /\ C15_ToolPendingCloses(r)
        /\ \A type \in {"text_delta", "thinking_delta"} :
            (/\ Handles(r) /\ Handled(r).type = type
             /\ HasToolBefore(r)
             /\ \A e \in AfterTool(r) : e.type = type => IsBlank(e.text))
            => IF IsBlank(Handled(r).text)
               THEN UNCHANGED <<entries, nextLineId>>
               ELSE OpensMessage(r)]_vars

\* A model message, then a ToolCall in status pending, then the next text
\* in a new model message.
C15_Witness ==
    /\ runs[1].pc = "initial"
    /\ Len(entries) = 3
    /\ entries[1].role = "model" /\ entries[1].text = <<"a">>
    /\ entries[2].kind = "toolcall" /\ entries[2].status = "pending"
    /\ entries[2].callId = runs[1].pendingToolRequests[1]
    /\ entries[3].role = "model" /\ entries[3].text = <<"a">>
    /\ runs[1].modelMessageId = entries[3].id


(***************************************************************************)
(* C16.  A tool_result, tool_confirmation or tool_cancelled event changes   *)
(* only the ToolCall entry whose callId is the event's id: its status       *)
(* becomes complete or error (by the event's success flag), confirming, or  *)
(* cancelled, and its id, kind, callId and position stay; every other       *)
(* entry stays as it was, no entry is created, no id is drawn and the open  *)
(* message ids stay; a tool_confirmation event calls onConfirmationNeeded   *)
(* once, and the other two events do not call it.                           *)
(***************************************************************************)
StatusAfter(event) ==
    CASE event.type = "tool_result" -> IF event.success THEN "complete" ELSE "error"
      [] event.type = "tool_confirmation" -> "confirming"
      [] event.type = "tool_cancelled" -> "cancelled"

C16_StatusEventInPlace ==
    [][\A r \in RunIds :
        (/\ Handles(r)
         /\ Handled(r).type \in {"tool_result", "tool_confirmation", "tool_cancelled"})
        => /\ Len(entries') = Len(entries)
           /\ \A i \in DOMAIN entries :
                IF entries[i].kind = "toolcall" /\ entries[i].callId = Handled(r).id
                THEN /\ entries'[i].status = StatusAfter(Handled(r))
                     /\ entries'[i].id = entries[i].id
                     /\ entries'[i].kind = entries[i].kind
                     /\ entries'[i].callId = entries[i].callId
                ELSE entries'[i] = entries[i]
           /\ UNCHANGED nextLineId
           /\ runs'[r].modelMessageId = runs[r].modelMessageId
           /\ runs'[r].thinkingMessageId = runs[r].thinkingMessageId
           /\ runs'[r].asked =
                IF Handled(r).type = "tool_confirmation"
                THEN Append(runs[r].asked, Handled(r).id)
                ELSE runs[r].asked]_vars

\* Two ToolCall entries; a tool_confirmation event for the first one has
\* made it confirming and called onConfirmationNeeded once; the second one
\* is still pending.
C16_Witness ==
    /\ Len(entries) = 2
    /\ entries[1].kind = "toolcall" /\ entries[1].status = "confirming"
    /\ entries[2].kind = "toolcall" /\ entries[2].status = "pending"
    /\ runs[1].asked = <<entries[1].callId>>
    /\ runs[1].heard[3].event.type = "tool_confirmation"


(***************************************************************************)
(* C17.  An error event appends exactly one entry, a system message, and    *)
(* leaves the stream context as it was; the run goes on awaiting the next   *)
(* event of the same stream; and a text_delta handled right after an error  *)
(* event, when a model message was open before the error, is appended to    *)
(* that message, which lies before the system message.                      *)
(***************************************************************************)
LastHeard(r) == runs[r].heard[Len(runs[r].heard)]

C17_ErrorEventGoesOn ==
    [][\A r \in RunIds :
        /\ (Handles(r) /\ Handled(r).type = "error") =>
            /\ entries' = Append(entries, ChatMessage(nextLineId + 1, "system", <<"E">>))
            /\ runs'[r].modelMessageId = runs[r].modelMessageId
            /\ runs'[r].thinkingMessageId = runs[r].thinkingMessageId
            /\ runs'[r].pendingToolRequests = runs[r].pendingToolRequests
            /\ runs'[r].round = runs[r].round
            /\ runs'[r].pc \in {"initial", "continuation"}
        /\ (/\ Handles(r) /\ Handled(r).type = "text_delta"
            /\ runs[r].heard # <<>> /\ LastHeard(r).event.type = "error"
            /\ LastHeard(r).round = runs[r].round
            /\ runs[r].modelMessageId # 0)
           => \E i \in DOMAIN entries :
                /\ entries[i].id = runs[r].modelMessageId
                /\ entries[i].role = "model"
                /\ i < Len(entries)
                /\ entries[Len(entries)].role = "system"
                /\ entries' = [entries EXCEPT ![i].text = @ \o Handled(r).text]]_vars

\* Text, an error event, text: the model message holds both texts and is
\* followed by the one system message.
C17_Witness ==
    /\ runs[1].pc = "initial"
    /\ Len(entries) = 2
    /\ entries[1].role = "model" /\ entries[1].text = <<"a", "a">>
    /\ entries[2] = ChatMessage(2, "system", <<"E">>)
    /\ runs[1].heard[2].event.type = "error"


(***************************************************************************)
(* C18.  A complete event and an event of an unknown type change nothing:   *)
(* the transcript, the id generator, the word count, the open message ids,  *)
(* the queue of pending tool requests and the calls of onConfirmationNeeded *)
(* stay as they were, and the run goes on awaiting the next event of the    *)
(* same stream.                                                             *)
(***************************************************************************)
C18_CompleteAndUnknownIgnored ==
    [][\A r \in RunIds :
        (Handles(r) /\ Handled(r).type \in {"complete", "unknown"}) =>
            /\ UNCHANGED <<entries, nextLineId, responderWordCount, streamState>>
            /\ runs'[r].modelMessageId = runs[r].modelMessageId
            /\ runs'[r].thinkingMessageId = runs[r].thinkingMessageId
            /\ runs'[r].pendingToolRequests = runs[r].pendingToolRequests
            /\ runs'[r].asked = runs[r].asked
            /\ runs'[r].round = runs[r].round
            /\ runs'[r].pc \in {"initial", "continuation"}]_vars

\* Text, then an unknown event and a complete event: the transcript is the
\* one model message, still open, and the run awaits the next event.
C18_Witness ==
    /\ runs[1].pc = "initial"
    /\ Len(runs[1].heard) = 3
    /\ runs[1].heard[2].event.type = "unknown"
    /\ runs[1].heard[3].event.type = "complete"
    /\ entries = << ChatMessage(1, "model", <<"a">>) >>
    /\ runs[1].modelMessageId = 1
    /\ responderWordCount = 1


(***************************************************************************)
(* C19.  The transcript is append-only: whatever store function is called   *)
(* with whatever arguments, the sequence of (id, kind) pairs of the entries *)
(* before the call is a prefix of the sequence after it, so no entry is     *)
(* removed, replaced or moved; and appendToMessage with an id that matches  *)
(* no message entry returns the transcript as it was.                       *)
(***************************************************************************)
IdKinds(es) == [i \in DOMAIN es |-> <<es[i].id, es[i].kind>>]

IsPrefix(a, b) == Len(a) <= Len(b) /\ SubSeq(b, 1, Len(a)) = a

UnmatchedAppendChangesNothing ==
    \A id \in 0..(MaxEntries + 1) :
        (~\E i \in DOMAIN entries : entries[i].kind = "message" /\ entries[i].id = id)
        => appendToMessage(UiStore, id, <<"a">>) = UiStore

C19_AppendOnly ==
    [][/\ IsPrefix(IdKinds(entries), IdKinds(entries'))
       /\ UnmatchedAppendChangesNothing
       /\ UnmatchedAppendChangesNothing']_vars

\* A message that was appended to, a legacy tool block and a ToolCall that
\* was updated, in the order they were appended.
C19_Witness ==
    /\ Len(entries) = 3
    /\ entries[1].kind = "message" /\ entries[1].text = <<"a", "a">>
    /\ entries[2].kind = "tool"
    /\ entries[3].kind = "toolcall" /\ entries[3].status = "complete"
    /\ IdKinds(entries) = << <<1, "message">>, <<2, "tool">>, <<3, "toolcall">> >>


(***************************************************************************)
(* C20.  Entry ids are unique and strictly increasing in transcript order,  *)
(* whoever appends (the submit path, the command handlers, the run): every  *)
(* id was drawn from the one generator, whose counter is the id of the      *)
(* last entry, so an entry appended later has a larger id than every        *)
(* earlier entry.                                                           *)
(***************************************************************************)
C20_IdsIncrease ==
    /\ \A i, j \in DOMAIN entries : i < j => entries[i].id < entries[j].id
    /\ \A i \in DOMAIN entries : entries[i].id \in 1..nextLineId
    /\ entries # <<>> => entries[Len(entries)].id = nextLineId

\* A user line, then a model message and a ToolCall of the run, then a
\* system line of a command handler, with ids 1 to 4.
C20_Witness ==
    /\ Len(entries) = 4
    /\ entries[1].role = "user" /\ origin[1].run = 0
    /\ entries[2].role = "model" /\ origin[2].run = 1
    /\ entries[3].kind = "toolcall" /\ origin[3].run = 1
    /\ entries[4].role = "system" /\ origin[4].run = 0
    /\ \A i \in 1..4 : entries[i].id = i


(***************************************************************************)
(* C21.  Cancellation is idempotent and never throws.  In every state,      *)
(* cancelStreaming called a second time right after a first call leaves     *)
(* the stream state (idle), the set of aborted controllers and the          *)
(* transcript as the first call left them; called when no run is in         *)
(* flight, it leaves the three as they were; no call throws.  The           *)
(* transcript is no part of what cancelStreaming writes.                    *)
(***************************************************************************)
Visible(c) == <<c.streamState, c.aborted>>

C21_WitnessIdle ==
    /\ mounted /\ abortRef = 0
    /\ \A r \in RunIds : ~InFlight(r)
    /\ \E r \in RunIds : runs[r].pc = "done" /\ runs[r].heard # <<>>


(***************************************************************************)
(* C22.  A press of an arrow key navigates the history only if the press    *)
(* recorded last had the same direction and was made less than 400 ms       *)
(* before; then the armed state is cleared, so no single press after it     *)
(* navigates.  Any other press (the first, one after a press of the other   *)
(* direction, one 400 ms or more after the press recorded last, one after   *)
(* a navigation) changes neither the buffer nor the cursor of the history,  *)
(* returns false and records its direction and time.                        *)
(***************************************************************************)
Armed(d) == lastKey # NoKey /\ lastKey.direction = d /\ now - lastKey.time < DoublePressWindow

\* The step is the press of the key with direction d.
Pressed(d) == historyLoaded /\ CommitHistory(handleHistoryKey(History, d, now))

C22_DoublePressNavigates ==
    [][\A d \in Directions :
        Pressed(d) =>
            IF Armed(d)
            THEN /\ index' = applyEntry(History, d).index
                 /\ buffer' = applyEntry(History, d).buffer
                 /\ handleHistoryKey(History, d, now).result = applyEntry(History, d).result
                 /\ lastKey' = NoKey
                 /\ \A e \in Directions, later \in now..MaxTime :
                        LET again == handleHistoryKey(History', e, later)
                        IN  again.index = index' /\ again.buffer = buffer' /\ ~again.result
            ELSE /\ UNCHANGED <<index, buffer>>
                 /\ ~handleHistoryKey(History, d, now).result
                 /\ lastKey' = [direction |-> d, time |-> now]]_vars

\* Two presses of up, 200 ms apart, have put the newest of two entries into
\* the buffer and cleared the armed state.
C22_Witness ==
    /\ Len(combinedEntries) = 2 /\ index = 1
    /\ buffer = combinedEntries[2]
    /\ lastKey = NoKey
    /\ now = 200


(***************************************************************************)
(* C23.  The navigable history is the persisted entries, oldest first,      *)
(* followed by the session entries, oldest first; the cursor stays in       *)
(* 0..length; record(p) puts the cursor at length, so the first confirmed   *)
(* up shows p; each confirmed up shows the entry before the cursor, down    *)
(* to the oldest, where it stops; a confirmed down that reaches length      *)
(* empties the buffer.  The persisted entries are those loaded at session   *)
(* start.                                                                   *)
(***************************************************************************)
Confirmed(d) ==
    /\ Pressed(d) /\ Armed(d)
    /\ textareaRef /\ combinedEntries # <<>>

CursorInRange == index \in 0..Len(combinedEntries)

RecordShowsPrompt ==
    RecordPrompt =>
        /\ index' = Len(combinedEntries')
        /\ combinedEntries' # <<>>
        /\ combinedEntries'[Len(combinedEntries')] = sessionEntries'[Len(sessionEntries')]
        /\ textareaRef =>
               applyEntry(History', "up").buffer = sessionEntries'[Len(sessionEntries')]

UpShowsOlder ==
    Confirmed("up") =>
        /\ index' = (IF index = 0 THEN 0 ELSE index - 1)
        /\ index' < Len(combinedEntries)
        /\ buffer' = combinedEntries[index' + 1]
        /\ UNCHANGED combinedEntries

DownShowsNewer ==
    Confirmed("down") =>
        /\ index' = (IF index = Len(combinedEntries) THEN index ELSE index + 1)
        /\ buffer' = (IF index' = Len(combinedEntries) THEN <<>>
                                                       ELSE combinedEntries[index' + 1])
        /\ UNCHANGED combinedEntries

C23_NavigableHistory ==
    /\ [](historyLoaded =>
            /\ combinedEntries = Reverse(loadedEntries) \o sessionEntries
            /\ CursorInRange)
    /\ [][RecordShowsPrompt /\ UpShowsOlder /\ DownShowsNewer]_vars

\* What of C23 does not depend on when the persisted history is read.
C23_Navigation ==
    /\ [](historyLoaded => CursorInRange)
    /\ [][RecordShowsPrompt /\ UpShowsOlder /\ DownShowsNewer]_vars

(***************************************************************************)
(* C24.  The persisted history is read only when it is loaded: record(p)    *)
(* does not read it again, so the navigable history after record(p) is the  *)
(* entries loaded at session start followed by the session entries, and     *)
(* each recorded prompt is in it once.                                      *)
(***************************************************************************)
C24_PersistedReadOnce ==
    [][RecordPrompt =>
        /\ combinedEntries' = Reverse(loadedEntries) \o sessionEntries'
        /\ Len(combinedEntries') = Len(loadedEntries) + Len(sessionEntries')]_vars


(***************************************************************************)
(* C25.  Every submission has exactly one of three outcomes: with a blank   *)
(* buffer (or no textarea to read) nothing changes; when the command        *)
(* handler consumes the text, no user message is appended, the prompt       *)
(* count stays and no run is started; otherwise the lines of the user       *)
(* text are appended to the transcript, the prompt count grows by one, the  *)
(* buffer is cleared, auto-follow is true, the completion state is cleared  *)
(* and the responder is invoked exactly once.  In the amended statement a   *)
(* text that trims to /quit and that no command handler consumes is set     *)
(* apart: the process exits and nothing else changes.                       *)
(***************************************************************************)
Submitted == trim(buffer)

NoRunStarted == runs' = runs /\ streamRunId' = streamRunId /\ streamState' = streamState

\* The entries this step appended.
Appended == SubSeq(entries', Len(entries) + 1, Len(entries'))

NothingChanges == UNCHANGED vars

Consumed ==
    /\ Len(Appended) = 0 /\ UNCHANGED entries
    /\ promptCount' = promptCount
    /\ NoRunStarted
    /\ modal' = ModalCommand(Submitted)

Forwarded ==
    LET lines == split(trimEnd(buffer))
    IN  /\ Len(Appended) >= Len(lines)
        /\ SubSeq(entries', 1, Len(entries)) = entries
        /\ \A k \in DOMAIN lines :
               /\ Appended[k].kind = "message" /\ Appended[k].role = "user"
               /\ Appended[k].text = lines[k]
        /\ \A k \in (Len(lines) + 1)..Len(Appended) : Appended[k].role = "system"
        /\ promptCount' = promptCount + 1
        /\ buffer' = <<>>
        /\ autoFollow'
        /\ suggestions' = <<>> /\ selectedIndex' = 0
        /\ Cardinality({r \in RunIds : Invoked(r)}) = 1
        /\ \A r \in RunIds : ~Invoked(r) => runs'[r] = runs[r]

Quit == exited' /\ UNCHANGED <<chatVars, historyVars, editorVars, promptCount, modal>>

SelectionInRange == suggestions # <<>> => selectedIndex \in 0..(Len(suggestions) - 1)

RefreshIdempotent ==
    textareaRef =>
        /\ refresh(Input).selectedIndex = 0
        /\ refresh(refresh(Input)) = refresh(Input)
        /\ refresh(Input).suggestions =
               (IF extractMentionQuery(buffer, cursorOffset) = NoMention THEN <<>>
                ELSE getSuggestions(extractMentionQuery(buffer, cursorOffset),
                                    MAX_SUGGESTION_COUNT))

Clamped(delta) ==
    LET next == selectedIndex + delta
    IN  IF next < 0 THEN 0
        ELSE IF next > Len(suggestions) - 1 THEN Len(suggestions) - 1
        ELSE next

NavigationIsNoOp(d) ==
    LET h == handleHistoryKey(History, d, now)
    IN  /\ h.index = index /\ h.buffer = buffer /\ h.cursorOffset = cursorOffset
        /\ h.combinedEntries = combinedEntries /\ h.sessionEntries = sessionEntries
        /\ ~h.result

C27_NullTextareaNoOps ==
    /\ [](~textareaRef =>
            /\ refresh(Input) = Input
            /\ enforceInputLineBounds(Input) = Input
            /\ handleSubmit(Input) = Input
            /\ \A k \in DOMAIN Candidates :
                   /\ applyCompletion(Input, Candidates[k]) = Input
                   /\ handleTabComplete(Input, Candidates[k]) = Input
            /\ \A d \in Directions : NavigationIsNoOp(d))
    /\ [][~textareaRef /\ HistoryKey =>
            UNCHANGED <<index, combinedEntries, editorVars, inputVars, chatVars>>]_vars

\* The textarea is gone while its text has a mention with two suggestions,
\* the second one selected, and a press of up has armed the history, which
\* has an entry: with a textarea, each of the operations would change the
\* state.
C27_Witness ==
    /\ ~textareaRef
    /\ trim(buffer) # <<>>
    /\ Len(suggestions) = 2 /\ selectedIndex = 1
    /\ combinedEntries # <<>> /\ index = Len(combinedEntries)
    /\ lastKey # NoKey /\ lastKey.direction = "up"


\* The positions of the text where a token begins.
TokenStarts(t) == {k \in DOMAIN t : ~IsSpace(t[k]) /\ (k = 1 \/ IsSpace(t[k - 1]))}

\* The token that begins at position s: the characters up to the next whitespace.
TokenAt(t, s) ==
    SubSeq(t, s, Greatest({e \in s..Len(t) : \A l \in s..e : ~IsSpace(t[l])}))

EndsInSpace(t) == t # <<>> /\ IsSpace(t[Len(t)])

\* parts are the whitespace-split tokens of t, in order, with an empty last
\* token exactly when t ends in whitespace.
IsSplitOf(parts, t) ==
    LET n == Cardinality(TokenStarts(t))
    IN  /\ Len(parts) = n + (IF EndsInSpace(t) THEN 1 ELSE 0)
        /\ \A s \in TokenStarts(t) :
               parts[1 + Cardinality({j \in TokenStarts(t) : j < s})] = TokenAt(t, s)
        /\ EndsInSpace(t) => parts[Len(parts)] = <<>>

TestSt == <<"t", "e", "s", "t", "/", "s", "t">>

\* C28: extractSlashContext returns a slash context only when the "/" that
\* begins the tokens under the cursor is the first character of the text or
\* follows a newline, with no newline between it and the cursor; the parts of
\* the context are then the whitespace-split tokens between that "/" and the
\* cursor.  For "test/st" with the cursor at 6, where the "/" is inside a
\* word, it returns no context.
C28_SlashOnlyAtLineStart ==
    LET ctx == extractSlashContext(buffer, cursorOffset)
    IN  /\ ctx # NoSlash =>
            /\ ctx.start \in 1..cursorOffset
            /\ buffer[ctx.start] = "/"
            /\ ctx.start = 1 \/ buffer[ctx.start - 1] = "\n"
            /\ \A k \in ctx.start..cursorOffset : buffer[k] # "\n"
            /\ IsSplitOf(ctx.parts, SubSeq(buffer, ctx.start + 1, cursorOffset))
        /\ buffer = TestSt /\ cursorOffset = 6 => ctx = NoSlash

C28_Witness ==
    /\ buffer = <<"a", "\n", "/", "s", "e", "t", " ", " ", "e", "m", "o">>
    /\ cursorOffset = Len(buffer)
    /\ extractSlashContext(buffer, cursorOffset).parts = << <<"s", "e", "t">>, <<"e", "m", "o">> >>
    /\ Len(suggestions) = 1

C28_WitnessMidWord ==
    /\ buffer = TestSt /\ cursorOffset = 6
    /\ suggestions = <<>>

\* Every node of the tree with the path that leads to it.
RECURSIVE Walk(_, _)
Walk(nodes, prefix) ==
    UNION {{[path |-> prefix \o <<nodes[k].name>>, children |-> nodes[k].children]}
               \cup Walk(nodes[k].children, prefix \o <<nodes[k].name>>) : k \in DOMAIN nodes}

Tree == Walk(SlashCommands, <<>>) \cup {[path |-> <<>>, children |-> SlashCommands]}

Limits == 0..MaxLimit

\* fullPath is "/" followed by the names of the path joined by single spaces.
IsFullPath(fullPath, path) ==
    /\ fullPath # <<>> /\ Head(fullPath) = "/"
    /\ tokens(Tail(fullPath)) = path
    /\ Cardinality({k \in DOMAIN fullPath : IsSpace(fullPath[k])}) = Len(path) - 1

\* C29: getSlashSuggestions returns the empty list for the path of a leaf
\* followed by an empty last token; where the path before the last token names
\* a node with children (the root for the empty path) it returns children of
\* that node that match the last token, as many as there are up to the limit,
\* each once and each with fullPath "/" followed by the space-joined path to
\* it; it never returns more than limit entries.
C29_SlashSuggestions ==
    LET ctx == extractSlashContext(buffer, cursorOffset)
    IN  ctx # NoSlash /\ ctx.parts # <<>> =>
            LET parts == ctx.parts
                path == SubSeq(parts, 1, Len(parts) - 1)
                token == parts[Len(parts)]
            IN  \A limit \in Limits :
                    LET r == getSlashSuggestions(parts, limit)
                    IN  /\ Len(r) <= limit
                        /\ \A e \in Tree : e.path = path =>
                            /\ e.children = <<>> /\ token = <<>> => r = <<>>
                            /\ e.children # <<>> =>
                                LET matching == {c \in DOMAIN e.children :
                                                    Contains(e.children[c].name, token)}
                                IN  /\ Len(r) = Min(limit, Cardinality(matching))
                                    /\ \A k \in DOMAIN r :
                                        /\ \E c \in matching :
                                               /\ e.children[c].name = r[k].value
                                               /\ r[k].hasChildren = (e.children[c].children # <<>>)
                                        /\ IsFullPath(r[k].fullPath, path \o <<r[k].value>>)
                                        /\ \A j \in DOMAIN r : r[j].value = r[k].value => j = k

C29_Witness ==
    /\ extractSlashContext(buffer, cursorOffset).mode = "slash"
    /\ extractSlashContext(buffer, cursorOffset).parts =
           << <<"s", "e", "t">>, <<"e", "m", "o", "j", "i", "f", "i", "l", "t", "e", "r">>, <<"a">> >>
    /\ Len(suggestions) = 2
    /\ suggestions[2].fullPath = <<"/", "s", "e", "t", " ", "e", "m", "o", "j", "i", "f", "i", "l", "t", "e", "r", " ", "a", "u", "t", "o">>

C29_WitnessLeaf ==
    /\ extractSlashContext(buffer, cursorOffset).mode = "slash"
    /\ Len(extractSlashContext(buffer, cursorOffset).parts) = 4
    /\ extractSlashContext(buffer, cursorOffset).parts[4] = <<>>
    /\ suggestions = <<>>


\* C30: migrateRole maps "responder" to "model" and returns "user", "model",
\* "system" and "thinking" unchanged; applied twice it gives what it gives
\* applied once, and it never returns "responder".  Stated of the role of
\* every stored line, and of every step that migrates one.
C30_MigrateRole ==
    /\ [](\A i \in DOMAIN entries :
            LET role == entries[i].role
            IN  /\ role = "responder" => migrateRole(role) = "model"
                /\ role \in {"user", "model", "system", "thinking"} => migrateRole(role) = role
                /\ migrateRole(migrateRole(role)) = migrateRole(role)
                /\ migrateRole(role) # "responder")
    /\ [][\A i \in DOMAIN entries : MigrateEntry(i) =>
            /\ entries'[i].role # "responder"
            /\ entries[i].role = "responder" => entries'[i].role = "model"
            /\ entries[i].role # "responder" => entries' = entries]_vars

C30_Witness ==
    /\ Len(entries) = 3
    /\ entries[1].role = "model"
    /\ entries[2].role = "responder"
    /\ entries[3].role = "thinking"


\* The approval on screen: the one the last render showed.
Shown == renderedApproval

\* A response for the approval has been published.
Answered(bus, approval, outcome) ==
    \E k \in DOMAIN bus :
        /\ bus[k].correlationId = approval.correlationId
        /\ bus[k].outcome = outcome

\* C31: handleDecision(callId, outcome) publishes only when a session exists
\* and callId is the callId of the approval on screen; it then publishes one
\* response, with that approval's correlationId and confirmed exactly when
\* the outcome is not cancel, and goes on to the next queued approval, or to
\* none.  A decision for any other callId publishes nothing and leaves the
\* approval and the queue as they are.
C31_DecisionForShown ==
    [][\A callId \in ApprovalCallIds, outcome \in Outcomes :
          HandleDecision(callId, outcome) =>
              IF approvalSession /\ Shown # NoApproval /\ Shown.callId = callId
              THEN /\ Len(published') = Len(published) + 1
                   /\ SubSeq(published', 1, Len(published)) = published
                   /\ published'[Len(published')].correlationId = Shown.correlationId
                   /\ published'[Len(published')].confirmed = (outcome # "cancel")
                   /\ IF approvalQueueRef # <<>>
                      THEN /\ pendingApproval' = Head(approvalQueueRef)
                           /\ approvalQueueRef' = Tail(approvalQueueRef)
                      ELSE /\ pendingApproval' = NoApproval
                           /\ approvalQueueRef' = <<>>
              ELSE UNCHANGED <<published, pendingApproval, renderedApproval,
                               approvalQueueRef>>]_vars

C31_Witness ==
    /\ Len(published) = 1
    /\ published[1].correlationId = 1 /\ published[1].confirmed
    /\ pendingApproval.correlationId = 2
    /\ renderedApproval.correlationId = 2
    /\ Len(approvalQueueRef) = 1

\* C32: clearApproval cancels all pending approvals: after it a Cancel
\* response has been published for the approval on screen and for every
\* approval waiting in the queue, the queue is empty and pendingApproval is
\* null.
C32_ClearCancelsAll ==
    [][ClearApproval =>
          /\ approvalQueueRef' = <<>>
          /\ pendingApproval' = NoApproval
          /\ Shown # NoApproval => Answered(published', Shown, "Cancel")
          /\ \A k \in DOMAIN approvalQueueRef :
                 Answered(published', approvalQueueRef[k], "Cancel")]_vars

\* C36: every approval passed to queueApproval is shown as pendingApproval
\* once, in the order it was queued, while each shown approval is decided:
\* the approvals shown are the first of those queued, in their order, and
\* every other queued approval is the one about to be shown or waits in the
\* queue; none is overwritten or dropped, also when queueApproval is called
\* several times before the component renders again.
C36_EveryApprovalShown ==
    /\ Len(shown) <= Len(queued)
    /\ shown = SubSeq(queued, 1, Len(shown))
    /\ \A k \in DOMAIN queued :
           k > Len(shown) =>
               \/ queued[k] = pendingApproval
               \/ \E j \in DOMAIN approvalQueueRef : approvalQueueRef[j] = queued[k]


NonBlank(value) == value # Undefined /\ \E k \in DOMAIN value : ~IsSpace(value[k])

KeyMessage == "API key or keyfile not set. Use /key <token> or /keyfile <path>."

SuccessMessages ==
    {"Provider set", "Base URL set", "Keyfile configured", "API key configured",
     "Model set", "Loaded synthetic profile"}

Fields == {"provider", "model", "apiKey", "keyFilePath", "baseUrl"}

\* The fields a successful command names, by the message it reports.
Named(message) ==
    IF message = "Provider set" THEN {"provider"}
    ELSE IF message = "Base URL set" THEN {"baseUrl"}
    ELSE IF message = "Keyfile configured" THEN {"keyFilePath"}
    ELSE IF message = "API key configured" THEN {"apiKey"}
    ELSE IF message = "Model set" THEN {"model"}
    ELSE {"provider", "baseUrl", "keyFilePath", "model"}

\* The field a successful command clears besides: the other credential.
Cleared(message) ==
    IF message = "Keyfile configured" \/ message = "Loaded synthetic profile" THEN {"apiKey"}
    ELSE IF message = "API key configured" THEN {"keyFilePath"}
    ELSE {}

Succeeded(result) ==
    result.handled /\ result.messages # <<>> /\ result.messages[1] \in SuccessMessages

ChangedFields(result) == {f \in Fields : result.nextConfig[f] # sessionConfig[f]}

\* Not handled, or a usage or failure message: the config is as it was.
UnchangedUnlessSucceeded(result) == ~Succeeded(result) => result.nextConfig = sessionConfig

\* C34 as stated: applyConfigCommand leaves the config unchanged whenever it
\* reports handled = false and whenever it reports a usage or failure
\* message; a successful command changes only the fields it names.
C34_OnlyNamedFields ==
    \A rawInput \in ConfigInputs, loaded \in Loads :
        LET result == applyConfigCommand(rawInput, sessionConfig, loaded)
        IN  /\ UnchangedUnlessSucceeded(result)
            /\ Succeeded(result) => ChangedFields(result) \subseteq Named(result.messages[1])

\* C34, amended: as above, but a successful /key also clears keyFilePath, a
\* successful /keyfile also clears apiKey and a successful /profile load also
\* clears apiKey; no other field changes.
C34_NamedFieldsAndOtherCredential ==
    \A rawInput \in ConfigInputs, loaded \in Loads :
        LET result == applyConfigCommand(rawInput, sessionConfig, loaded)
        IN  /\ UnchangedUnlessSucceeded(result)
            /\ Succeeded(result) =>
                /\ ChangedFields(result) \subseteq
                       Named(result.messages[1]) \cup Cleared(result.messages[1])
                /\ \A f \in Cleared(result.messages[1]) : result.nextConfig[f] = Undefined

C34_Witness ==
    /\ sessionConfig.keyFilePath = <<"f">>
    /\ sessionConfig.baseUrl = <<"v">>
    /\ sessionConfig.provider = "anthropic"
    /\ applyConfigCommand(<<"/", "key", " ", "k">>, sessionConfig, Throws).nextConfig.keyFilePath
           = Undefined
    /\ applyConfigCommand(<<"/", "baseurl">>, sessionConfig, Throws).messages # <<>>

\* C39: from a config with neither apiKey nor keyFilePath, after any sequence
\* of config commands the config never has both apiKey and keyFilePath set.
C39_OneCredential ==
    sessionConfig.apiKey = Undefined \/ sessionConfig.keyFilePath = Undefined

C39_Witness ==
    /\ sessionConfig.apiKey = <<"k", " ", "k">>
    /\ sessionConfig.keyFilePath = Undefined
    /\ sessionConfig.model = <<"pm">>
    /\ sessionConfig.baseUrl = <<"eu">>

\* C40: after any sequence of config commands and provider-picker selections
\* the provider of the session config is one of openai, gemini and anthropic.
C40_ProviderKnown == sessionConfig.provider \in ProviderKeys


Terminal == {"complete", "error", "cancelled"}

C37_StatusMonotonic ==
    [][\A i \in DOMAIN entries :
          (entries[i].kind = "toolcall" /\ entries[i].status \in Terminal) =>
              /\ i \in DOMAIN entries'
              /\ entries'[i].kind = "toolcall"
              /\ entries'[i].callId = entries[i].callId
              /\ entries'[i].status = entries[i].status]_vars


\* C38: whenever a run has ended (its async function has returned, by
\* completion, cancel, supersession or error) no ToolCall entry the run
\* created is left in status pending or executing.
Unsettled == {"pending", "executing"}

C38_NoToolLeftOpen ==
    \A r \in RunIds :
        runs[r].pc = "done" =>
            \A i \in ToolEntries(r) : entries[i].status \notin Unsettled

====
